---- MODULE Spec2Model ----
(***************************************************************************)
(* A model of the NMR reporter's template engine: Block/Char (block.py),   *)
(* Formatter with its Section and Hypotheses (formatter.py), CUES          *)
(* (cues.py), Signal (signal.py) and Spectrum.parse_signals,               *)
(* complex_parse_into_signals, match_hypothesis, parse_signal              *)
(* (spectrum.py).                                                          *)
(*                                                                         *)
(* A Python str is a sequence of one-character strings.  A Char is a       *)
(* record [ch, id]: ch is the character, id stands for the identity of the *)
(* Python object (Char.__eq__ against a Char is `is`).  Positions are      *)
(* 0-based as in Python; -1 stands for "not found".                        *)
(***************************************************************************)
EXTENDS Integers, Sequences, FiniteSets, TLC

VARIABLES
    raw,        \* Formatter._raw_nmr_format: the template, a sequence of Chars
    r_spectrum, \* r_spectrum[1]: the text the Spectrum was built from
    resplit,    \* TRUE when that text is a span an earlier split emitted
    text,       \* Spectrum.text: the record-block text still to be split
    pc,         \* position of the run
    formatter,  \* the compiled Formatter (head, signals, hypotheses, delimiter, end)
    path,       \* which branch of parse_signals split the text
    _signals,   \* parse_signals' list of record spans
    cur,        \* index of the record span the loop of parse_signals is at
    hypothesis, \* the result of match_hypothesis for the current span
    parsed,     \* the result of parse_signal for it, with the fields examined
    signals,    \* Spectrum.signals: the records built so far
    cx,         \* locals of complex_parse_into_signals
    err,        \* the exception that ended the run, "none" while there is none
    compared    \* two Blocks and the result of Block.__eq__ on them

vars == <<raw, r_spectrum, resplit, text, pc, formatter, path, _signals, cur,
          hypothesis, parsed, signals, cx, err, compared>>

(***************************************************************************)
(* Python str operations                                                   *)
(***************************************************************************)
Range(s) == {s[i] : i \in 1..Len(s)}

Min(S) == CHOOSE x \in S : \A y \in S : x <= y

Reverse(s) == [i \in 1..Len(s) |-> s[Len(s) + 1 - i]]

\* s[a:b] for 0 <= a, b (Python clamps both to len(s))
Slice(s, a, b) ==
    LET hi == IF b > Len(s) THEN Len(s) ELSE b
    IN  IF a >= hi THEN <<>> ELSE SubSeq(s, a + 1, hi)

\* s[p:p+len(sub)] == sub
OccursAt(s, sub, p) ==
    /\ p + Len(sub) <= Len(s)
    /\ \A j \in 1..Len(sub) : s[p + j] = sub[j]

\* str.find(sub, start, end): the lowest position of sub in s[start:end], or -1
StrFind(s, sub, start, end) ==
    LET hi == IF end > Len(s) THEN Len(s) ELSE end
        at == {p \in start..(hi - Len(sub)) : OccursAt(s, sub, p)}
    IN  IF at = {} THEN -1 ELSE Min(at)

\* str.count(sub): non-overlapping occurrences, len(s) + 1 for the empty sub
RECURSIVE CountFrom(_, _, _)
CountFrom(s, sub, start) ==
    LET i == StrFind(s, sub, start, Len(s))
    IN  IF i = -1 THEN 0 ELSE 1 + CountFrom(s, sub, i + Len(sub))

StrCount(s, sub) == IF sub = <<>> THEN Len(s) + 1 ELSE CountFrom(s, sub, 0)

\* str.split(sep) for a non-empty sep
RECURSIVE StrSplit(_, _)
StrSplit(s, sep) ==
    LET i == StrFind(s, sep, 0, Len(s))
    IN  IF i = -1 THEN <<s>>
        ELSE <<Slice(s, 0, i)>> \o StrSplit(Slice(s, i + Len(sep), Len(s)), sep)

\* str.lower() on the letters the templates of the model use
Lower(c) ==
    CASE c = "C" -> "c"
      [] c = "I" -> "i"
      [] c = "A" -> "a"
      [] OTHER -> c

(***************************************************************************)
(* block.py                                                                *)
(***************************************************************************)
Char(c, kind, n, j) == [ch |-> c, id |-> <<kind, n, j>>]

\* Block(text, optional, variable=...) for a list of Chars or a Block's chars
Block(chars, optional, variable) ==
    [chars |-> chars, optional |-> optional, variable |-> variable]

\* the Chars Block(str) makes: new objects, one per character
FreshChars(str, kind, n) == [j \in 1..Len(str) |-> Char(str[j], kind, n, j)]

\* Block.__call__: the string of a Block
Str(chars) == [i \in 1..Len(chars) |-> chars[i].ch]

\* Block.__eq__: the same Char objects in the same order and the same flags
BlockEq(a, b) ==
    a.chars = b.chars /\ a.variable = b.variable /\ a.optional = b.optional

(***************************************************************************)
(* cues.py                                                                 *)
(***************************************************************************)
Digits == {"0", "1", "2", "3", "4", "5", "6", "7", "8", "9"}

CuesKeys == {<<"%", c>> : c \in {"n", "s", "f", "c", "i", "m", "j", "a"}}

\* CUES[key]: none for None, else the list of accepted characters
CUES ==
    [key \in CuesKeys |->
        CASE key[2] = "f" -> [none |-> FALSE, accept |-> Digits \cup {"."}]
          [] key[2] = "i" -> [none |-> FALSE, accept |-> Digits]
          [] key[2] = "m" -> [none |-> FALSE, accept |->
                 {"s", "d", "t", "q", "p", "x", "h", "b", "r", "m", "*"}]
          [] key[2] = "j" -> [none |-> FALSE, accept |-> Digits \cup {".", " ", ","}]
          [] OTHER -> [none |-> TRUE, accept |-> {}]]

(***************************************************************************)
(* formatter.py: Formatter._parse                                          *)
(***************************************************************************)
ParseFail(e) == [err |-> e, items |-> <<>>]

\* the `if _text(): list_of_parsed.append(Block(_text, _optional))` of _parse
Flush(text_, optional_, list_of_parsed) ==
    IF text_ # <<>>
    THEN Append(list_of_parsed, Block(text_, optional_, FALSE))
    ELSE list_of_parsed

\* one pass of `while unparsed`: the locals after it, err set when it raises
ParseStep(rawf, st) ==
    LET unparsed == st.unparsed
        lop == Flush(st.text_, st.optional_, st.list_of_parsed)
        _key == <<"%", Lower(unparsed[2].ch)>>
    IN  IF unparsed[1].ch \notin {"%", "*"}
        THEN [st EXCEPT !.unparsed = Tail(unparsed),
                        !.text_ = Append(@, unparsed[1])]
        ELSE IF unparsed[1].ch = "*"
        THEN [st EXCEPT !.unparsed = Tail(unparsed),
                        !.text_ = <<>>,
                        !.optional_ = ~@,
                        !.list_of_parsed =
                            Append(lop, Block(<<>>, ~st.optional_, FALSE))]
        ELSE IF Len(unparsed) < 2 THEN [st EXCEPT !.err = "IndexError"]
        ELSE IF \/ StrCount(Str(rawf), _key) > 1
                \/ /\ lop # <<>>
                   /\ StrCount(Str(lop[Len(lop)].chars), <<"%">>) > 0
                \/ _key \notin CuesKeys
        THEN [st EXCEPT !.err = "FormatError"]
        ELSE [st EXCEPT !.unparsed = Slice(unparsed, 2, Len(unparsed)),
                        !.text_ = <<>>,
                        !.list_of_parsed =
                            Append(lop, Block(FreshChars(_key, "key", unparsed[1].id[2]),
                                              st.optional_, TRUE))]

\* up to n passes of `while unparsed`, the first half of them before the rest
RECURSIVE ParseLoop(_, _, _)
ParseLoop(rawf, st, n) ==
    IF n = 0 \/ st.err # "none" \/ st.unparsed = <<>> THEN st
    ELSE IF n = 1 THEN ParseStep(rawf, st)
    ELSE LET half == ParseLoop(rawf, st, n \div 2)
         IN  IF half.err # "none" THEN half
             ELSE ParseLoop(rawf, half, n - (n \div 2))

_parse(rawf, unparsed) ==
    LET st == ParseLoop(rawf,
                        [err |-> "none", unparsed |-> unparsed, text_ |-> <<>>,
                         optional_ |-> FALSE, list_of_parsed |-> <<>>],
                        Len(unparsed))
    IN  IF st.err # "none" THEN ParseFail(st.err)
        ELSE [err |-> "none",
              items |-> Flush(st.text_, st.optional_, st.list_of_parsed)]

(***************************************************************************)
(* formatter.py: Formatter.Section                                         *)
(***************************************************************************)
constants(section) == SelectSeq(section, LAMBDA x : ~x.variable)

variables(section) == SelectSeq(section, LAMBDA x : x.variable)

StrsOf(blocks) ==
    LET ne == SelectSeq(blocks, LAMBDA x : x.chars # <<>>)
    IN  [i \in 1..Len(ne) |-> Str(ne[i].chars)]

constants_str(section) == StrsOf(constants(section))

variables_str(section) == StrsOf(variables(section))

\* Section(section, contains)
Section(section, contains) == [section |-> section, contains |-> contains]

\* ''.join(section.str)
JoinStr(section) ==
    LET F[i \in 0..Len(section)] ==
            IF i = 0 THEN <<>> ELSE F[i - 1] \o Str(section[i].chars)
    IN  F[Len(section)]

\* Section.splice_blocks: `gone` are the positions holding Block('', variable=None)
RECURSIVE SpliceLoop(_, _, _)
SpliceLoop(section, gone, i) ==
    IF i > Len(section) THEN [section |-> section, gone |-> gone]
    ELSE IF /\ (i - 1) \notin gone
            /\ section[i].variable = section[i - 1].variable
    THEN SpliceLoop(
            [section EXCEPT ![i - 1] =
                Block(section[i - 1].chars \o section[i].chars, FALSE, FALSE)],
            gone \cup {i}, i + 1)
    ELSE SpliceLoop(section, gone, i + 1)

splice_blocks(sec) ==
    LET r == SpliceLoop(sec.section, {}, 2)
        keep == {i \in 1..Len(r.section) : i \notin r.gone}
        Nth[i \in 0..Len(r.section)] ==
            IF i = 0 THEN <<>>
            ELSE IF i \in keep THEN Append(Nth[i - 1], r.section[i]) ELSE Nth[i - 1]
    IN  Section(Nth[Len(r.section)], sec.contains)

(***************************************************************************)
(* formatter.py: Formatter.Hypotheses                                      *)
(***************************************************************************)
\* the loop cutting the section into pieces, an empty piece being left out
RECURSIVE PiecesLoop_no_empty(_, _, _, _)
PiecesLoop_no_empty(section, i, _pieces, _piece) ==
    IF i > Len(section)
    THEN IF _piece # <<>> THEN Append(_pieces, _piece) ELSE _pieces
    ELSE IF section[i].chars = <<>>
    THEN PiecesLoop_no_empty(section, i + 1,
             IF _piece # <<>> THEN Append(_pieces, _piece) ELSE _pieces, <<>>)
    ELSE PiecesLoop_no_empty(section, i + 1, _pieces, Append(_piece, section[i]))

\* the loop of Hypotheses.__init__ that cuts the signal section into pieces
RECURSIVE PiecesLoop(_, _, _, _)
PiecesLoop(section, i, _pieces, _piece) ==
    IF i > Len(section)
    THEN IF _piece # <<>> THEN Append(_pieces, _piece) ELSE _pieces
    ELSE IF section[i].chars = <<>>
    THEN PiecesLoop(section, i + 1, Append(_pieces, _piece), <<>>)
    ELSE PiecesLoop(section, i + 1, _pieces, Append(_piece, section[i]))

Pieces(section) == PiecesLoop(section, 1, <<>>, <<>>)

\* self._pieces[1::2]
OptionalPieces(_pieces) ==
    [j \in 1..(Len(_pieces) \div 2) |-> _pieces[2 * j]]

\* list.index(x): the 0-based position of the first element equal to x
ListIndex(list, x) == Min({i \in 1..Len(list) : list[i] = x}) - 1

\* list.remove(x): the list without its first element equal to x
ListRemove(list, x) ==
    LET i == ListIndex(list, x) + 1
    IN  SubSeq(list, 1, i - 1) \o SubSeq(list, i + 1, Len(list))

\* `for i, item in enumerate(a_list): if i in leftout: temp_list.remove(item)`
RECURSIVE KnockOut(_, _, _, _)
KnockOut(a_list, leftout, i, temp_list) ==
    IF i >= Len(a_list) THEN temp_list
    ELSE IF i \in Range(leftout)
    THEN KnockOut(a_list, leftout, i + 1, ListRemove(temp_list, a_list[i + 1]))
    ELSE KnockOut(a_list, leftout, i + 1, temp_list)

\* leftout after `leftout[i] -= 1` and the reset of the indices left of i
\* (i is the 1-based position of the decremented index)
StepLeftout(leftout, i) ==
    [j \in 1..Len(leftout) |->
        IF j > i THEN leftout[j] ELSE leftout[i] - 1 - (i - j)]

\* the `while True` loop of find_combinations
RECURSIVE CombinationsLoop(_, _, _)
CombinationsLoop(a_list, leftout, combinations) ==
    LET found == Append(combinations, KnockOut(a_list, leftout, 0, a_list))
        gaps == {i \in 2..Len(leftout) : (leftout[i] - 1) \notin Range(leftout)}
    IN  IF leftout[1] > 0
        THEN CombinationsLoop(a_list, [leftout EXCEPT ![1] = @ - 1], found)
        ELSE IF gaps = {} THEN found
        ELSE CombinationsLoop(a_list, StepLeftout(leftout, Min(gaps)), found)

\* find_combinations listing the combinations from the last one to the first
find_combinations_reversed(a_list, n) ==
    LET leftout == [x \in 1..(Len(a_list) - n) |-> n + x - 1]
    IN  IF Len(a_list) - n <= 0 THEN <<a_list>>
        ELSE Reverse(CombinationsLoop(a_list, leftout, <<>>))

find_combinations(a_list, n) ==
    LET leftout == [x \in 1..(Len(a_list) - n) |-> n + x - 1]
    IN  IF Len(a_list) - n <= 0 THEN <<a_list>>
        ELSE CombinationsLoop(a_list, leftout, <<>>)

\* the blocks of one hypothesis: `for piece in self._pieces: ...`
RECURSIVE HypothesisBlocks(_, _, _)
HypothesisBlocks(_pieces, combination, p) ==
    IF p > Len(_pieces) THEN <<>>
    ELSE LET piece == _pieces[p]
             taken == IF ListIndex(_pieces, piece) % 2 = 0
                      THEN piece
                      ELSE IF piece \in Range(combination) THEN piece ELSE <<>>
         IN  taken \o HypothesisBlocks(_pieces, combination, p + 1)

Contains(_hypothesis) ==
    {Str(_hypothesis[i].chars) : i \in {j \in 1..Len(_hypothesis) : _hypothesis[j].variable}}

\* one hypothesis of build_hypotheses: the Section, spliced
BuildHypothesis(_pieces, combination) ==
    LET _hypothesis == HypothesisBlocks(_pieces, combination, 1)
    IN  splice_blocks(Section(_hypothesis, Contains(_hypothesis)))

\* build_hypotheses(n): the list appended to self.hypotheses
build_hypotheses(_pieces, n) ==
    LET combinations == find_combinations(OptionalPieces(_pieces), n)
    IN  [c \in 1..Len(combinations) |-> BuildHypothesis(_pieces, combinations[c])]

\* Hypotheses.__init__ without `self.hypotheses.reverse()`
Hypotheses_unreversed(signal) ==
    LET _pieces == Pieces(signal.section)
        k == Len(OptionalPieces(_pieces))
    IN  [g \in 1..(k + 1) |-> build_hypotheses(_pieces, g - 1)]

\* Hypotheses.__init__: the groups for n = 0..k, reversed
Hypotheses(signal) ==
    LET _pieces == Pieces(signal.section)
        k == Len(OptionalPieces(_pieces))
    IN  [g \in 1..(k + 1) |-> build_hypotheses(_pieces, k + 1 - g)]

(***************************************************************************)
(* formatter.py: Formatter.__init__                                        *)
(***************************************************************************)
NoFormatter == [err |-> "unbuilt"]

\* Formatter.__init__ without the test of the number of "*" (lines 53-55)
FormatterInit_any_toggles(_raw_nmr_format) ==
    LET s == Str(_raw_nmr_format)
        n == Len(s)
        _repeat_i == StrFind(s, <<"/">>, 0, n)
        _repeat_i2 == StrFind(s, <<"/">>, _repeat_i + 1, n)
        _repeat_i3 == n - 1 - StrFind(Reverse(s), <<"/">>, 0, n)
        before == IF _repeat_i = 0 THEN s[n] ELSE s[_repeat_i]
        head == _parse(_raw_nmr_format, Slice(_raw_nmr_format, 0, _repeat_i))
        sigs == _parse(_raw_nmr_format,
                       Slice(_raw_nmr_format, _repeat_i + 1, _repeat_i2))
    IN  IF StrCount(s, <<"/">>) # 3 THEN [err |-> "FormatError"]
        ELSE IF before # " " THEN [err |-> "FormatError"]
        ELSE IF head.err # "none" THEN [err |-> head.err]
        ELSE IF sigs.err # "none" THEN [err |-> sigs.err]
        ELSE [err |-> "none",
              head |-> Section(head.items, {}),
              signals |-> Section(sigs.items, {}),
              hypotheses |-> Hypotheses(Section(sigs.items, {})),
              delimiter |-> Block(Slice(_raw_nmr_format, _repeat_i2 + 1, _repeat_i3),
                                  FALSE, FALSE),
              end |-> IF _repeat_i3 # n - 1
                      THEN Block(<<_raw_nmr_format[n]>>, FALSE, FALSE)
                      ELSE Block(<<>>, FALSE, FALSE)]

FormatterInit(_raw_nmr_format) ==
    LET s == Str(_raw_nmr_format)
        n == Len(s)
        _repeat_i == StrFind(s, <<"/">>, 0, n)
        _repeat_i2 == StrFind(s, <<"/">>, _repeat_i + 1, n)
        _repeat_i3 == n - 1 - StrFind(Reverse(s), <<"/">>, 0, n)
        \* _raw_nmr_format[_repeat_i - 1]: index -1 is the last Char
        before == IF _repeat_i = 0 THEN s[n] ELSE s[_repeat_i]
        head == _parse(_raw_nmr_format, Slice(_raw_nmr_format, 0, _repeat_i))
        sigs == _parse(_raw_nmr_format,
                       Slice(_raw_nmr_format, _repeat_i + 1, _repeat_i2))
    IN  IF StrCount(s, <<"/">>) # 3 THEN [err |-> "FormatError"]
        ELSE IF StrCount(s, <<"*">>) % 2 # 0 THEN [err |-> "FormatError"]
        ELSE IF before # " " THEN [err |-> "FormatError"]
        ELSE IF head.err # "none" THEN [err |-> head.err]
        ELSE IF sigs.err # "none" THEN [err |-> sigs.err]
        ELSE [err |-> "none",
              head |-> Section(head.items, {}),
              signals |-> Section(sigs.items, {}),
              hypotheses |-> Hypotheses(Section(sigs.items, {})),
              delimiter |-> Block(Slice(_raw_nmr_format, _repeat_i2 + 1, _repeat_i3),
                                  FALSE, FALSE),
              end |-> IF _repeat_i3 # n - 1
                      THEN Block(<<_raw_nmr_format[n]>>, FALSE, FALSE)
                      ELSE Block(<<>>, FALSE, FALSE)]

(***************************************************************************)
(* spectrum.py: Spectrum.match_hypothesis                                  *)
(***************************************************************************)
\* the `for block in hypothesis.constants_str` loop: next_ and counts
RECURSIVE CountsLoop(_, _, _, _)
CountsLoop(cs, i, _temp, counts) ==
    IF i > Len(cs) THEN [next_ |-> FALSE, counts |-> counts]
    ELSE LET count == StrCount(_temp, cs[i]) IN
         IF count = 0 THEN [next_ |-> TRUE, counts |-> counts]
         ELSE CountsLoop(cs, i + 1,
                         Slice(_temp, StrFind(_temp, cs[i], 0, Len(_temp)), Len(_temp)),
                         Append(counts, count))

\* the `for count in counts: score += count - 1; scores.append(score)` loop
ScoresOf(counts) ==
    LET F[i \in 0..Len(counts)] ==
            IF i = 0 THEN 0 ELSE F[i - 1] + counts[i] - 1
    IN  [i \in 1..Len(counts) |-> F[i]]

\* the loop without `if not hypothesis.constants: return hypothesis`
RECURSIVE GroupLoop_compare_all(_, _, _, _)
GroupLoop_compare_all(hypothesis_set, signal, h, scores) ==
    IF h > Len(hypothesis_set)
    THEN LET _scores == SelectSeq(scores, LAMBDA x : x >= 0) IN
         IF _scores = <<>> THEN [kind |-> "next"]
         ELSE LET at == ListIndex(scores, Min(Range(_scores))) IN
              IF at >= Len(hypothesis_set)
              THEN [kind |-> "IndexError", scores |-> scores]
              ELSE [kind |-> "hypothesis", h |-> at + 1, how |-> "score",
                    scores |-> scores]
    ELSE LET r == CountsLoop(constants_str(hypothesis_set[h].section), 1,
                             Str(signal), <<>>) IN
         IF r.next_
         THEN GroupLoop_compare_all(hypothesis_set, signal, h + 1, Append(scores, -1))
         ELSE IF Range(r.counts) = {1}
         THEN [kind |-> "hypothesis", h |-> h, how |-> "exact", scores |-> scores]
         ELSE GroupLoop_compare_all(hypothesis_set, signal, h + 1,
                                    scores \o ScoresOf(r.counts))

\* the loop without `if set(counts) == {1}: return hypothesis`
RECURSIVE GroupLoop_scores_only(_, _, _, _)
GroupLoop_scores_only(hypothesis_set, signal, h, scores) ==
    IF h > Len(hypothesis_set)
    THEN LET _scores == SelectSeq(scores, LAMBDA x : x >= 0) IN
         IF _scores = <<>> THEN [kind |-> "next"]
         ELSE LET at == ListIndex(scores, Min(Range(_scores))) IN
              IF at >= Len(hypothesis_set)
              THEN [kind |-> "IndexError", scores |-> scores]
              ELSE [kind |-> "hypothesis", h |-> at + 1, how |-> "score",
                    scores |-> scores]
    ELSE IF constants(hypothesis_set[h].section) = <<>>
    THEN [kind |-> "hypothesis", h |-> h, how |-> "no constants", scores |-> scores]
    ELSE LET r == CountsLoop(constants_str(hypothesis_set[h].section), 1,
                             Str(signal), <<>>) IN
         IF r.next_
         THEN GroupLoop_scores_only(hypothesis_set, signal, h + 1, Append(scores, -1))
         ELSE GroupLoop_scores_only(hypothesis_set, signal, h + 1,
                                    scores \o ScoresOf(r.counts))

\* the `for hypothesis in hypothesis_set` loop and the choice that follows it:
\* a returned hypothesis, IndexError, or "next" when the group yields nothing
RECURSIVE GroupLoop(_, _, _, _)
GroupLoop(hypothesis_set, signal, h, scores) ==
    IF h > Len(hypothesis_set)
    THEN LET _scores == SelectSeq(scores, LAMBDA x : x >= 0) IN
         IF _scores = <<>> THEN [kind |-> "next"]
         ELSE LET at == ListIndex(scores, Min(Range(_scores))) IN
              IF at >= Len(hypothesis_set)
              THEN [kind |-> "IndexError", scores |-> scores]
              ELSE [kind |-> "hypothesis", h |-> at + 1, how |-> "score",
                    scores |-> scores]
    ELSE IF constants(hypothesis_set[h].section) = <<>>
    THEN [kind |-> "hypothesis", h |-> h, how |-> "no constants", scores |-> scores]
    ELSE LET r == CountsLoop(constants_str(hypothesis_set[h].section), 1,
                             Str(signal), <<>>) IN
         IF r.next_ THEN GroupLoop(hypothesis_set, signal, h + 1, Append(scores, -1))
         ELSE IF Range(r.counts) = {1}
         THEN [kind |-> "hypothesis", h |-> h, how |-> "exact", scores |-> scores]
         ELSE GroupLoop(hypothesis_set, signal, h + 1, scores \o ScoresOf(r.counts))

\* the `for hypothesis_set in self.formatter.hypotheses()` loop
RECURSIVE GroupsLoop(_, _, _)
GroupsLoop(hypotheses, signal, g) ==
    IF g > Len(hypotheses) THEN [kind |-> "InputError"]
    ELSE LET r == GroupLoop(hypotheses[g], signal, 1, <<>>) IN
         IF r.kind = "next" THEN GroupsLoop(hypotheses, signal, g + 1)
         ELSE IF r.kind = "IndexError" THEN [kind |-> "IndexError", g |-> g, scores |-> r.scores]
         ELSE [kind |-> "hypothesis", g |-> g, h |-> r.h, how |-> r.how,
               scores |-> r.scores]

\* match_hypothesis giving up after the fullest group
match_hypothesis_fullest_only(f, signal) ==
    LET r == GroupLoop(f.hypotheses[1], signal, 1, <<>>) IN
    IF r.kind = "next" THEN [kind |-> "InputError"]
    ELSE IF r.kind = "IndexError" THEN [kind |-> "IndexError", g |-> 1, scores |-> r.scores]
    ELSE [kind |-> "hypothesis", g |-> 1, h |-> r.h, how |-> r.how, scores |-> r.scores]

match_hypothesis(f, signal) == GroupsLoop(f.hypotheses, signal, 1)

(***************************************************************************)
(* signal.py: Signal.__init__                                              *)
(***************************************************************************)
None == [none |-> TRUE, chars |-> <<>>]

Some(chars) == [none |-> FALSE, chars |-> chars]

SignalKeys == {<<"%", "c">>, <<"%", "i">>, <<"%", "m">>, <<"%", "j">>, <<"%", "a">>}

\* Signal(signal_variables, hypothesis): a record, or IndexError
SignalInit(signal_variables, hyp) ==
    LET vs == variables_str(hyp.section)
        Has(key) == key \in Range(vs)
        Short(key) == Has(key) /\ ListIndex(vs, key) >= Len(signal_variables)
        Field(key, default) ==
            IF Has(key) THEN Some(signal_variables[ListIndex(vs, key) + 1]) ELSE default
    IN  IF \E key \in SignalKeys : Short(key) THEN [kind |-> "IndexError"]
        ELSE [kind |-> "Signal",
              chemshift |-> Field(<<"%", "c">>, None),
              integral |-> Field(<<"%", "i">>, None),
              multiplicity |-> Field(<<"%", "m">>, None),
              j_values |-> Field(<<"%", "j">>, None),
              assignment |-> Field(<<"%", "a">>, Some(<<>>)),
              signal_variables |-> signal_variables,
              hypothesis |-> hyp]

(***************************************************************************)
(* spectrum.py: Spectrum.parse_signal                                      *)
(***************************************************************************)
\* Block.lstrip: one leading space is dropped
lstrip(chars) ==
    IF chars # <<>> /\ chars[1].ch = " " THEN Tail(chars) ELSE chars

\* the loop without the `elif block in working_slice[:len(block)]: break` branch
RECURSIVE CueLoop_strict(_, _, _, _)
CueLoop_strict(cue, block, working_slice, appendix) ==
    IF working_slice = <<>> THEN [kind |-> "ok", appendix |-> appendix]
    ELSE IF working_slice[1].ch \in cue
    THEN CueLoop_strict(cue, block, Tail(working_slice),
                        Append(appendix, working_slice[1]))
    ELSE [kind |-> "InputError"]

\* the `while working_slice` loop under a cue: the appendix, or InputError
RECURSIVE CueLoop(_, _, _, _)
CueLoop(cue, block, working_slice, appendix) ==
    IF working_slice = <<>> THEN [kind |-> "ok", appendix |-> appendix]
    ELSE IF working_slice[1].ch \in cue
    THEN CueLoop(cue, block, Tail(working_slice), Append(appendix, working_slice[1]))
    ELSE IF StrCount(Str(Slice(working_slice, 0, Len(block))), block) > 0
    THEN [kind |-> "ok", appendix |-> appendix]
    ELSE [kind |-> "InputError"]

\* one pass of the `for i, block in enumerate(hypothesis.constants_str)` loop
\* up to the working slice: the positions it finds and the candidate text
FieldStep(hyp, i, signal) ==
    LET cs == constants_str(hyp.section)
        block == cs[i]
        s == Str(signal)
        temp_block_i == StrFind(s, block, 0, Len(s))
        next_i == IF i < Len(cs)
                  THEN StrFind(s, cs[i + 1], temp_block_i + Len(block), Len(s))
                  ELSE Len(s)
        sliced_list == Reverse(Slice(s, 0, next_i))
        block_i == StrFind(sliced_list, Reverse(block), 0, Len(sliced_list))
        true_block_i == Len(sliced_list) - block_i - Len(block)
    IN  [block |-> block,
         temp_block_i |-> temp_block_i,
         next_i |-> next_i,
         working_slice |-> IF temp_block_i = -1 \/ next_i = -1 THEN <<>>
                           ELSE lstrip(Slice(signal, 0, true_block_i))]

\* the result of parse_signal with the fields it examined: for each, the
\* variable code, the constant after it, the candidate text and the outcome
Outcome(r, seen) == [result |-> r, seen |-> seen]

\* one pass of the `for i, block in enumerate(hypothesis.constants_str)` loop
\* (lines 392-459) on the locals st: the locals after it, or the exception in
\* kind; `appendix` is unbound until a working slice was non-empty
FieldsPass(hyp, st) ==
    LET vars_ == variables(hyp.section)
        step == FieldStep(hyp, st.i, st.signal)
        block == step.block
        working_slice == step.working_slice
        key == Str(vars_[Len(st._signal_variables) + 1].chars)
        got == IF CUES[key].none
               THEN [kind |-> "ok", appendix |-> working_slice]
               ELSE CueLoop(CUES[key].accept, block, working_slice, <<>>)
        field == [key |-> key, block |-> block, candidate |-> working_slice,
                  kind |-> got.kind,
                  value |-> IF got.kind = "ok" THEN got.appendix ELSE <<>>]
    IN
    IF step.temp_block_i = -1 THEN [st EXCEPT !.kind = "ValueError"]
    ELSE IF step.next_i = -1 THEN [st EXCEPT !.kind = "ValueError"]
    ELSE IF working_slice # <<>>
    THEN IF Len(st._signal_variables) >= Len(vars_)
         THEN [st EXCEPT !.kind = "IndexError"]
         ELSE IF got.kind # "ok"
         THEN [st EXCEPT !.kind = got.kind, !.seen = Append(@, field)]
         ELSE [kind |-> "ok", i |-> st.i + 1,
               signal |-> Slice(st.signal, Len(got.appendix) + Len(block),
                                Len(st.signal)),
               _signal_variables |-> Append(st._signal_variables, got.appendix),
               bound |-> TRUE, appendix |-> got.appendix,
               seen |-> Append(st.seen, field)]
    ELSE IF ~st.bound THEN [st EXCEPT !.kind = "UnboundLocalError"]
    ELSE [st EXCEPT !.i = @ + 1,
                    !.signal = Slice(@, Len(st.appendix) + Len(block), Len(@))]

\* the locals of parse_signal before the first pass of the loop
FieldsStart(signal) ==
    [kind |-> "ok", i |-> 1, signal |-> signal, _signal_variables |-> <<>>,
     bound |-> FALSE, appendix |-> <<>>, seen |-> <<>>]

\* the loop and the return of line 461
RECURSIVE FieldsLoop(_, _)
FieldsLoop(hyp, st) ==
    IF st.kind # "ok" THEN Outcome([kind |-> st.kind], st.seen)
    ELSE IF st.i > Len(constants_str(hyp.section))
    THEN Outcome(SignalInit(st._signal_variables, hyp), st.seen)
    ELSE FieldsLoop(hyp, FieldsPass(hyp, st))

parse_signal(signal, hyp) ==
    IF Len(variables(hyp.section)) > 0 /\ constants(hyp.section) = <<>>
    THEN Outcome(SignalInit(<<signal>>, hyp), <<>>)
    ELSE FieldsLoop(hyp, FieldsStart(signal))

(***************************************************************************)
(* block.py: Block.split                                                   *)
(***************************************************************************)
\* one pass of `while i < len(self.chars)`; i, j, k are 0-based as in the code
SplitStep(chars, split_list, st) ==
    IF st.j >= Len(split_list) THEN [st EXCEPT !.kind = "IndexError"]
    ELSE IF st.k >= Len(split_list[st.j + 1]) THEN [st EXCEPT !.kind = "IndexError"]
    ELSE LET hit == chars[st.i + 1].ch = split_list[st.j + 1][st.k + 1]
             _chars1 == IF hit THEN Append(st._chars, chars[st.i + 1]) ELSE st._chars
             k1 == IF hit THEN st.k + 1 ELSE st.k
         IN  IF k1 = Len(split_list[st.j + 1])
             THEN [st EXCEPT !.i = @ + 1, !.j = @ + 1, !.k = 0, !._chars = <<>>,
                             !.texts = Append(@, Block(_chars1, FALSE, FALSE))]
             ELSE [st EXCEPT !.i = @ + 1, !.k = k1, !._chars = _chars1]

\* up to n passes of the loop, the first half of them before the rest
RECURSIVE SplitLoop(_, _, _, _)
SplitLoop(chars, split_list, st, n) ==
    IF n = 0 \/ st.kind # "ok" \/ st.i >= Len(chars) THEN st
    ELSE IF n = 1 THEN SplitStep(chars, split_list, st)
    ELSE LET half == SplitLoop(chars, split_list, st, n \div 2)
         IN  IF half.kind # "ok" THEN half
             ELSE SplitLoop(chars, split_list, half, n - (n \div 2))

\* Block.split(delimiter): the list of Blocks, IndexError, or the ValueError
\* of str.split for an empty separator
split(chars, sep) ==
    IF sep = <<>> THEN [kind |-> "ValueError"]
    ELSE LET st == SplitLoop(chars, StrSplit(Str(chars), sep),
                             [kind |-> "ok", i |-> 0, j |-> 0, k |-> 0,
                              _chars |-> <<>>, texts |-> <<>>],
                             Len(chars))
         IN  IF st.kind # "ok" THEN [kind |-> st.kind]
             ELSE [kind |-> "ok", texts |-> st.texts]

(***************************************************************************)
(* spectrum.py: Spectrum.parse_signals, the split                          *)
(***************************************************************************)
\* the delimiter with the last constant after it, not before it
effective_delimiter_appended(f) ==
    LET section == f.signals.section
        last == section[Len(section)]
    IN  IF section = <<>> THEN [kind |-> "IndexError"]
        ELSE IF ~last.variable /\ ~last.optional
        THEN [kind |-> "ok",
              block |-> Block(f.delimiter.chars
                                \o FreshChars(Str(last.chars), "delimiter", 0),
                              FALSE, FALSE)]
        ELSE [kind |-> "ok", block |-> f.delimiter]

\* the delimiter of the template, whatever the last item of the section
effective_delimiter_configured(f) ==
    IF f.signals.section = <<>> THEN [kind |-> "IndexError"]
    ELSE [kind |-> "ok", block |-> f.delimiter]

\* lines 132-136: `delimiter`, or the IndexError of `signals()[-1]`
effective_delimiter(f) ==
    LET section == f.signals.section
        last == section[Len(section)]
    IN  IF section = <<>> THEN [kind |-> "IndexError"]
        ELSE IF ~last.variable /\ ~last.optional
        THEN [kind |-> "ok",
              block |-> Block(FreshChars(Str(last.chars), "delimiter", 0)
                                \o f.delimiter.chars, FALSE, FALSE)]
        ELSE [kind |-> "ok", block |-> f.delimiter]

\* the simple branch whenever the signal region has a constant
simple_with_constants(f, sep) == constants(f.signals.section) # <<>>

\* line 151: delimiter() not in ''.join(self.formatter.hypotheses()[0][0].str)
simple(f, sep) == StrCount(JoinStr(f.hypotheses[1][1].section), sep) = 0

\* lines 154-155: the Block without its last Char when that is the end marker
pop_end(f, signal) ==
    IF StrCount(Str(f.end.chars), <<signal[Len(signal)].ch>>) > 0
    THEN SubSeq(signal, 1, Len(signal) - 1)
    ELSE signal

\* lines 156-163: the Chars of _signals[i] after `+=`, or IndexError
reattach(f, i, signal) ==
    LET section == f.signals.section
        cs == constants(section)
        cstr == constants_str(section)
    IN  IF cs = <<>> \/ section = <<>> THEN [kind |-> "ok", chars |-> signal]
        ELSE IF cs[Len(cs)].optional \/ ~BlockEq(cs[Len(cs)], section[Len(section)])
        THEN [kind |-> "ok", chars |-> signal]
        ELSE IF cstr = <<>> \/ signal = <<>> THEN [kind |-> "IndexError"]
        ELSE IF cstr[Len(cstr)] # <<signal[Len(signal)].ch>>
        THEN [kind |-> "ok",
              chars |-> signal \o FreshChars(cstr[Len(cstr)], "reattached", i)]
        ELSE [kind |-> "ok", chars |-> signal]

\* the `for i, signal in enumerate(_signals)` loop, lines 153-163
RECURSIVE SignalsLoop(_, _, _)
SignalsLoop(f, texts, i) ==
    IF i > Len(texts) THEN [kind |-> "ok", _signals |-> texts]
    ELSE LET r == reattach(f, i, pop_end(f, texts[i].chars)) IN
         IF r.kind # "ok" THEN [kind |-> r.kind]
         ELSE SignalsLoop(f, [texts EXCEPT ![i] = Block(r.chars, FALSE, FALSE)], i + 1)

\* lines 152-163
simple_split(f, text_, sep) ==
    LET r == split(text_, sep) IN
    IF r.kind # "ok" THEN [kind |-> r.kind]
    ELSE SignalsLoop(f, r.texts, 1)

(***************************************************************************)
(* spectrum.py: Spectrum.complex_parse_into_signals                        *)
(***************************************************************************)
\* `block in self.text`
In(block, text_) == StrCount(Str(text_), Str(block.chars)) > 0

\* lines 205-209: the 0-based position in constants of l_anchor
RECURSIVE LAnchorLoop(_, _, _, _)
LAnchorLoop(cs, text_, l_anchor, i) ==
    IF ~In(l_anchor, text_) /\ i < Len(cs)
    THEN LAnchorLoop(cs, text_, cs[i + 1], i + 1)
    ELSE l_anchor

\* lines 218-224; constants[i] for a negative i is constants[len + i]
RECURSIVE RAnchorLoop(_, _, _, _, _)
RAnchorLoop(cs, text_, l_anchor, r_anchor, i) ==
    IF /\ ~In(r_anchor, text_)
       /\ i >= -Len(cs)
       /\ ListIndex(cs, r_anchor) >= ListIndex(cs, l_anchor)
    THEN RAnchorLoop(cs, text_, l_anchor, cs[Len(cs) + i + 1], i - 1)
    ELSE r_anchor

\* the direct split only when no anchor is found or both are the delimiter
direct_anchors_only(l_anchor, r_anchor, sep, text_) ==
    \/ ~In(l_anchor, text_) /\ ~In(r_anchor, text_)
    \/ BlockEq(l_anchor, sep) /\ BlockEq(r_anchor, sep)

\* lines 230-233: the condition of the direct split of what is left
direct(l_anchor, r_anchor, sep, text_) ==
    \/ ~In(l_anchor, text_) /\ ~In(r_anchor, text_)
    \/ BlockEq(l_anchor, sep) /\ BlockEq(r_anchor, sep)
    \/ StrCount(Str(text_), Str(sep.chars)) = 0

\* lines 242-243: the condition of the inner loop
located(l_anchor, r_anchor, sep, text_) ==
    In(l_anchor, text_) /\ In(r_anchor, text_) /\ In(sep, text_)

\* lines 249-290: the span one pass of the inner loop appends and the text it
\* leaves, or the ValueError of an index() that finds nothing
inner(l_anchor, r_anchor, sep, text_) ==
    LET s == Str(text_)
        n == Len(s)
        d == Str(sep.chars)
        l == Str(l_anchor.chars)
        r == Str(r_anchor.chars)
        _l_anch_index == IF ~BlockEq(l_anchor, sep) THEN StrFind(s, l, 0, n)
                         ELSE StrFind(s, r, 0, n)
        _r_anch_index == IF ~BlockEq(r_anchor, sep) THEN StrFind(s, r, 0, n)
                         ELSE StrFind(s, l, 0, n)
        before == StrFind(s, d, 0, n) < _l_anch_index
        rev_l == StrFind(Reverse(s), l, 0, n)
        rev_d == StrFind(Reverse(s), d, rev_l, n)
        _l_index == IF before THEN n - rev_d ELSE 0
        after == _r_anch_index + Len(r)
        _r_index == IF StrCount(Slice(s, after, n), d) > 0
                    THEN StrFind(s, d, after, n) ELSE n
        signal == Slice(text_, _l_index, _r_index)
    IN  IF before /\ (rev_l = -1 \/ rev_d = -1) THEN [kind |-> "ValueError"]
        ELSE [kind |-> "ok", signal |-> Block(signal, FALSE, FALSE),
              text |-> Slice(text_, Len(signal) + Len(d), n)]

(***************************************************************************)
(* Inputs                                                                  *)
(***************************************************************************)
\* the Block main.py builds from the template paragraph: one Char per character
RawOf(str) == [i \in 1..Len(str) |-> Char(str[i], "raw", i, 0)]

\* the Block of a record-block text
TextOf(str) == [i \in 1..Len(str) |-> Char(str[i], "text", i, 0)]

MaxPieces == 7

\* the variable codes in the order of CUES
CodeLetters == <<"n", "s", "f", "c", "i", "m", "j", "a">>

\* what may stand between two toggle markers of a signal region: nothing, a
\* constant, or the variable whose code is the p-th of CUES
PieceKinds == {"empty", "constant", "variable"}

PieceText(p, kind) ==
    CASE kind = "empty" -> <<>>
      [] kind = "constant" -> <<"a">>
      [] OTHER -> <<"%", CodeLetters[((p - 1) % Len(CodeLetters)) + 1]>>

\* the pieces joined with the toggle marker "*"
JoinPieces(kinds) ==
    LET F[i \in 0..Len(kinds)] ==
            IF i = 0 THEN <<>>
            ELSE IF i = 1 THEN PieceText(1, kinds[1])
            ELSE F[i - 1] \o <<"*">> \o PieceText(i, kinds[i])
    IN  F[Len(kinds)]

\* a template: head " ", the signal region, the delimiter ";", no end
TemplateOf(region) == <<" ", "/">> \o region \o <<"/", ";", "/">>

MaxOptional == 5

\* every choice of kinds for up to MaxPieces pieces, and the regions of
\* 2k + 1 constant pieces, k of them optional, for k up to MaxOptional
CompileTemplates ==
    {TemplateOf(JoinPieces(kinds)) :
        kinds \in UNION {[1..n -> PieceKinds] : n \in 1..MaxPieces}}
    \cup {TemplateOf(JoinPieces([i \in 1..(2 * k + 1) |-> "constant"])) :
            k \in 0..MaxOptional}

(***************************************************************************)
(* The run                                                                 *)
(***************************************************************************)
NoHypothesis == [kind |-> "none"]

NoParsed == Outcome([kind |-> "none"], <<>>)

NoComplex == [finished |-> FALSE]

\* no Blocks are compared
NoBlocks ==
    [self |-> Block(<<>>, FALSE, FALSE), other |-> Block(<<>>, FALSE, FALSE),
     eq |-> FALSE]

Idle ==
    /\ pc = "start"
    /\ compared = NoBlocks
    /\ r_spectrum = <<>>
    /\ resplit = FALSE
    /\ formatter = NoFormatter
    /\ path = "none"
    /\ _signals = <<>>
    /\ cur = 0
    /\ hypothesis = NoHypothesis
    /\ parsed = NoParsed
    /\ signals = <<>>
    /\ cx = NoComplex
    /\ err = "none"

\* Formatter(raw_format), main.py line 70
Compile ==
    /\ pc = "start"
    /\ formatter' = FormatterInit(raw)
    /\ err' = IF formatter'.err = "none" THEN "none" ELSE formatter'.err
    /\ pc' = IF formatter'.err = "none" THEN "compiled" ELSE "failed"
    /\ UNCHANGED <<compared, raw, r_spectrum, resplit, text, path, _signals, cur, hypothesis, parsed, signals, cx>>

InitCompile ==
    /\ raw \in {RawOf(t) : t \in CompileTemplates}
    /\ text = <<>>
    /\ Idle

SpecCompile == InitCompile /\ [][Compile]_vars

\* Fail(e): the exception e ends the run
Fail(e) ==
    /\ pc' = "failed"
    /\ err' = e

\* parse_signals up to its loop over the spans: the delimiter, the choice of
\* the branch, and the whole of the simple branch (lines 132-176)
Begin ==
    /\ pc = "split"
    /\ LET d == effective_delimiter(formatter) IN
       IF d.kind # "ok"
       THEN Fail(d.kind) /\ UNCHANGED <<path, _signals, cx>>
       ELSE IF simple(formatter, Str(d.block.chars))
       THEN LET r == simple_split(formatter, text, Str(d.block.chars)) IN
            /\ path' = "simple"
            /\ cx' = cx
            /\ IF r.kind = "ok"
               THEN _signals' = r._signals /\ pc' = "loop" /\ err' = err
               ELSE Fail(r.kind) /\ _signals' = _signals
       ELSE /\ path' = "complex"
            /\ _signals' = <<>>
            /\ cx' = [finished |-> FALSE]
            /\ pc' = "outer"
            /\ err' = err
    /\ UNCHANGED <<compared, raw, r_spectrum, resplit, text, formatter, cur, hypothesis, parsed, signals>>

\* one pass of `while not finished and self.text` up to the inner loop
\* (lines 197-240), or the return of complex_parse_into_signals (line 300)
OuterPass ==
    /\ pc = "outer"
    /\ IF cx.finished \/ text = <<>>
       THEN /\ pc' = "loop"
            /\ UNCHANGED <<text, _signals, cx, err>>
       ELSE LET cs == constants(formatter.signals.section)
                sep == effective_delimiter(formatter).block
                l_anchor == LAnchorLoop(cs, text, cs[1], 1)
                r_anchor == RAnchorLoop(cs, text, l_anchor, cs[Len(cs)], -2)
                r == split(text, Str(sep.chars))
            IN  IF cs = <<>>
                THEN Fail("IndexError") /\ UNCHANGED <<text, _signals, cx>>
                ELSE IF direct(l_anchor, r_anchor, sep, text)
                THEN IF r.kind = "ok"
                     THEN /\ _signals' = _signals \o r.texts
                          /\ cx' = [finished |-> TRUE]
                          /\ UNCHANGED <<text, pc, err>>
                     ELSE Fail(r.kind) /\ UNCHANGED <<text, _signals, cx>>
                ELSE /\ cx' = [finished |-> FALSE,
                               l_anchor |-> l_anchor, r_anchor |-> r_anchor]
                     /\ pc' = "inner"
                     /\ UNCHANGED <<text, _signals, err>>
    /\ UNCHANGED <<compared, raw, r_spectrum, resplit, formatter, path, cur, hypothesis, parsed, signals>>

\* one pass of the inner `while` of complex_parse_into_signals (lines 242-295),
\* or its end when an anchor or the delimiter is no longer in the text
InnerStep ==
    /\ pc = "inner"
    /\ LET sep == effective_delimiter(formatter).block
           r == inner(cx.l_anchor, cx.r_anchor, sep, text)
       IN  IF ~located(cx.l_anchor, cx.r_anchor, sep, text)
           THEN /\ pc' = "outer"
                /\ UNCHANGED <<text, _signals, cx, err>>
           ELSE IF r.kind # "ok"
           THEN Fail(r.kind) /\ UNCHANGED <<text, _signals, cx>>
           ELSE /\ _signals' = Append(_signals, r.signal)
                /\ text' = r.text
                /\ err' = err
                /\ IF r.text = text
                   THEN /\ cx' = [cx EXCEPT !.finished = TRUE]
                        /\ pc' = "outer"
                   ELSE UNCHANGED <<cx, pc>>
    /\ UNCHANGED <<compared, raw, r_spectrum, resplit, formatter, path, cur, hypothesis, parsed, signals>>

\* Spectrum((cypher, span), formatter, blocked_signals_only=True) for a span
\* the split has emitted and that holds no delimiter (spectrum.py lines 32-35)
Resplit ==
    /\ pc = "loop"
    /\ cur = 0
    /\ ~resplit
    /\ \E i \in 1..Len(_signals) :
        /\ StrCount(Str(_signals[i].chars),
                    Str(effective_delimiter(formatter).block.chars)) = 0
        /\ r_spectrum' = _signals[i].chars
        /\ text' = _signals[i].chars
    /\ resplit' = TRUE
    /\ pc' = "split"
    /\ path' = "none"
    /\ _signals' = <<>>
    /\ cx' = NoComplex
    /\ UNCHANGED <<compared, raw, formatter, cur, hypothesis, parsed, signals, err>>

\* self.match_hypothesis(signal), spectrum.py line 182
MatchHypothesis ==
    /\ pc = "loop"
    /\ cur < Len(_signals)
    /\ hypothesis' = match_hypothesis(formatter, _signals[cur + 1].chars)
    /\ parsed' = NoParsed
    /\ pc' = IF hypothesis'.kind = "hypothesis" THEN "matched" ELSE "failed"
    /\ err' = IF hypothesis'.kind = "hypothesis" THEN err ELSE hypothesis'.kind
    /\ UNCHANGED <<compared, raw, r_spectrum, resplit, text, formatter, path, _signals, cur, signals, cx>>

\* parse_signal taking the variables off the matched hypothesis as it reads
\* them (`hypothesis.variables.pop(0)` for the indexing of line 419)
ParseSignal_consuming ==
    /\ pc = "matched"
    /\ parsed' = parse_signal(_signals[cur + 1].chars,
                               formatter.hypotheses[hypothesis.g][hypothesis.h])
    /\ formatter' = [formatter EXCEPT !.hypotheses[hypothesis.g][hypothesis.h].section =
                        constants(@)]
    /\ IF parsed'.result.kind = "Signal"
       THEN /\ signals' = Append(signals, parsed'.result)
            /\ cur' = cur + 1
            /\ pc' = "loop"
            /\ err' = err
       ELSE /\ err' = parsed'.result.kind
            /\ pc' = "failed"
            /\ UNCHANGED <<signals, cur>>
    /\ UNCHANGED <<compared, raw, r_spectrum, resplit, text, path, _signals, hypothesis, cx>>

\* self.signals.append(self.parse_signal(signal, hypothesis)), spectrum.py line 183
ParseSignal ==
    /\ pc = "matched"
    /\ parsed' = parse_signal(_signals[cur + 1].chars,
                               formatter.hypotheses[hypothesis.g][hypothesis.h])
    /\ IF parsed'.result.kind = "Signal"
       THEN /\ signals' = Append(signals, parsed'.result)
            /\ cur' = cur + 1
            /\ pc' = "loop"
            /\ err' = err
       ELSE /\ err' = parsed'.result.kind
            /\ pc' = "failed"
            /\ UNCHANGED <<signals, cur>>
    /\ UNCHANGED <<compared, raw, r_spectrum, resplit, text, formatter, path, _signals, hypothesis, cx>>

\* the loop of parse_signals has handled every span
Finish ==
    /\ pc = "loop"
    /\ cur = Len(_signals)
    /\ pc' = "done"
    /\ UNCHANGED <<compared, raw, r_spectrum, resplit, text, formatter, path, _signals, cur, hypothesis, parsed, signals, cx, err>>

(***************************************************************************)
(* Matching and extracting one record span                                 *)
(***************************************************************************)
MaxRecordLen == 5

RecordAlphabet == {"a", "b", "1", " "}

RecordTexts == UNION {[1..n -> RecordAlphabet] : n \in 0..MaxRecordLen}

\* signal regions: a variable before a constant; a leading constant; a trailing
\* variable; a variable with a cue; one optional piece; optional pieces whose
\* group holds a hypothesis without constants; the same constant twice; two and
\* three optional pieces whose middle groups hold hypotheses with one and with
\* two constants
MatchRegions ==
    { <<"%", "c", "a">>,
      <<"a", "%", "c">>,
      <<"%", "c", "a", "%", "i">>,
      <<"%", "c", "a", "%", "n">>,
      <<"%", "i", "a">>,
      <<"%", "i", "a", "%", "c", "b">>,
      <<"%", "c", "*", "a", "%", "i", "*", "b">>,
      <<"*", "a", "%", "i", "*", "*", "%", "c", "*">>,
      <<"%", "c", "a", "%", "i", "a">>,
      <<"*", "a", "%", "i", "a", "*", "%", "c", "*", "b", "*">>,
      <<"*", "a", "%", "i", "a", "*", "%", "c", "*", "b", "*", "*", "1", "*">>,
      <<"%", "c">> }

InitMatch ==
    /\ raw \in {RawOf(TemplateOf(r)) : r \in MatchRegions}
    /\ formatter = FormatterInit(raw)
    /\ r_spectrum = <<>>
    /\ resplit = FALSE
    /\ text = <<>>
    /\ path = "direct"
    /\ _signals \in {<<Block(TextOf(t), FALSE, FALSE)>> : t \in RecordTexts}
    /\ pc = "loop"
    /\ cur = 0
    /\ hypothesis = NoHypothesis
    /\ parsed = NoParsed
    /\ signals = <<>>
    /\ cx = NoComplex
    /\ err = "none"
    /\ compared = NoBlocks

NextMatch == MatchHypothesis \/ ParseSignal \/ Finish

SpecMatch == InitMatch /\ [][NextMatch]_vars

(***************************************************************************)
(* Splitting a record-block text                                           *)
(***************************************************************************)
\* a template: head " ", the signal region, the delimiter, the end
Template(region, sep, end) ==
    <<" ", "/">> \o region \o <<"/">> \o sep \o <<"/">> \o end

MaxTextLen == 5

TextAlphabet == {"1", "a", ";", "."}

SplitTexts == UNION {[1..n -> TextAlphabet] : n \in 0..MaxTextLen}

\* templates of the simple branch: a final constant that joins the delimiter,
\* with and without an end marker, of two characters, a final variable, a
\* leading constant, no constant, an optional final constant, a class; of the
\* complex branch: the delimiter between two variables, inside a constant,
\* empty, equal to an optional constant; an empty region; no constant at all;
\* only toggle markers
SplitTemplates ==
    { Template(<<"%", "c", "a">>, <<";">>, <<>>),
      Template(<<"%", "c", "a">>, <<";">>, <<".">>),
      Template(<<"%", "c", "a", "a">>, <<";">>, <<>>),
      Template(<<"%", "c", "a", "%", "i">>, <<";">>, <<>>),
      Template(<<"a", "%", "c">>, <<";">>, <<>>),
      Template(<<"%", "c">>, <<";">>, <<>>),
      Template(<<"%", "c", "*", "a", "*">>, <<";">>, <<>>),
      Template(<<"%", "i", "a">>, <<";">>, <<".">>),
      Template(<<"%", "c", ";", "%", "i">>, <<";">>, <<>>),
      Template(<<"%", "c", "a", ";", "%", "i", "a">>, <<";">>, <<>>),
      Template(<<"%", "c", "a">>, <<>>, <<>>),
      Template(<<"%", "c", "*", "a", "*">>, <<"a">>, <<>>),
      Template(<<>>, <<";">>, <<>>),
      Template(<<"%", "c">>, <<>>, <<>>),
      Template(<<"*", "a", "*">>, <<>>, <<>>) }

\* the example of a template and a record-block text with two records
ExampleTemplate ==
    <<"S", "i", "g", "n", "a", "l", ":", " ", "%", "c", " ", "(", "%", "i",
        " ", "H", ",", " ", "%", "m", ",", " ", "J", " ", "=", " ", "%", "j",
        " ", "H", "z", ")", " ", "/", ";", " ", "/", ",", " ", "/", ".">>

ExampleText ==
    <<"S", "i", "g", "n", "a", "l", ":", " ", "1", ".", "2", " ", "(", "3",
        "H", ",", " ", "d", ",", " ", "J", " ", "=", " ", "7", ".", "5", " ",
        "H", "z", ")", ";", " ", "S", "i", "g", "n", "a", "l", ":", " ", "2",
        ".", "1", " ", "(", "1", "H", ",", " ", "s", ",", " ", "J", " ", "=",
        " ", "0", ".", "0", " ", "H", "z", ")", ".">>

\* the example with the record pattern in the signal region, a variable first
\* and a one-character constant last
RegionTemplate ==
    <<" ", "/", "%", "c", " ", "(", "%", "i", "H", ",", " ", "%", "m", ",",
        " ", "J", " ", "=", " ", "%", "j", ")", "/", ";", " ", "/", ".">>

RegionText ==
    <<"1", ".", "2", " ", "(", "3", "H", ",", " ", "d", ",", " ", "J", " ",
        "=", " ", "7", ".", "5", ")", ";", " ", "2", ".", "1", " ", "(", "1",
        "H", ",", " ", "s", ",", " ", "J", " ", "=", " ", "0", ".", "0", ")",
        ".">>

\* a template with an optional piece between a variable and the final constant,
\* and two records, one with the piece and one without it, in both orders
OptionalTemplate ==
    <<" ", "/", "%", "c", "*", ".", "%", "i", "*", "a", "/", ";", "/">>

OptionalText == <<"1", ".", "2", "a", ";", "3", "a">>

OptionalTextSwapped == <<"3", "a", ";", "1", ".", "2", "a">>

SplitCases ==
    (SplitTemplates \X SplitTexts)
        \cup {<<ExampleTemplate, ExampleText>>, <<RegionTemplate, RegionText>>,
              <<OptionalTemplate, OptionalText>>,
              <<OptionalTemplate, OptionalTextSwapped>>}

\* Spectrum(r_spectrum, formatter, blocked_signals_only=True) up to the call
\* of parse_signals (spectrum.py lines 25-35), for a compiled formatter
InitSplit ==
    /\ \E c \in SplitCases :
        /\ raw = RawOf(c[1])
        /\ r_spectrum = TextOf(c[2])
    /\ resplit = FALSE
    /\ formatter = FormatterInit(raw)
    /\ text = r_spectrum
    /\ path = "none"
    /\ _signals = <<>>
    /\ pc = "split"
    /\ cur = 0
    /\ hypothesis = NoHypothesis
    /\ parsed = NoParsed
    /\ signals = <<>>
    /\ cx = NoComplex
    /\ err = "none"
    /\ compared = NoBlocks

NextSplit ==
    \/ Begin
    \/ OuterPass
    \/ InnerStep
    \/ Resplit
    \/ MatchHypothesis
    \/ ParseSignal
    \/ Finish

SpecSplit == InitSplit /\ [][NextSplit]_vars

\* templates of the complex branch whose first constant is not the delimiter:
\* a one-character left anchor, a two-character left anchor, a two-character
\* effective delimiter with a right anchor of its own; and the delimiter as
\* the only constant
AnchorTemplates ==
    { Template(<<"a", "%", "c", ";", "%", "i">>, <<";">>, <<>>),
      Template(<<"a", "b", "%", "c", ";", "%", "i">>, <<";">>, <<>>),
      Template(<<"a", "%", "c", "b", ";", "%", "i", "b">>, <<";">>, <<>>),
      Template(<<"%", "c", ";", "%", "i">>, <<";">>, <<>>) }

AnchorAlphabet == {"1", "a", "b", ";"}

AnchorTexts == UNION {[1..n -> AnchorAlphabet] : n \in 0..MaxTextLen}

\* record blocks of two records, with and without a delimiter before the first
AnchoredRecords == <<"a", "1", ";", "2", ";", "a", "3", ";", "4">>

AnchorCases ==
    (AnchorTemplates \X AnchorTexts)
        \cup {<<Template(<<"a", "%", "c", ";", "%", "i">>, <<";">>, <<>>), t>> :
                 t \in {AnchoredRecords, <<";">> \o AnchoredRecords}}

\* Spectrum(r_spectrum, formatter, blocked_signals_only=True) up to the call
\* of parse_signals, for the templates of the anchor loop
InitAnchor ==
    /\ \E c \in AnchorCases :
        /\ raw = RawOf(c[1])
        /\ r_spectrum = TextOf(c[2])
    /\ resplit = FALSE
    /\ formatter = FormatterInit(raw)
    /\ text = r_spectrum
    /\ path = "none"
    /\ _signals = <<>>
    /\ pc = "split"
    /\ cur = 0
    /\ hypothesis = NoHypothesis
    /\ parsed = NoParsed
    /\ signals = <<>>
    /\ cx = NoComplex
    /\ err = "none"
    /\ compared = NoBlocks

SpecAnchor == InitAnchor /\ [][NextSplit]_vars

\* the interpreter goes on with the next pass of a loop it is in: weak
\* fairness of OuterPass and of InnerStep, WF_vars(OuterPass) and
\* WF_vars(InnerStep), with ENABLED written out (OuterPass has a step that
\* changes the state exactly when pc = "outer", InnerStep exactly when
\* pc = "inner")
FairAnchor ==
    /\ SpecAnchor
    /\ ([]<>(pc # "outer") \/ []<><<OuterPass>>_vars)
    /\ ([]<>(pc # "inner") \/ []<><<InnerStep>>_vars)

(***************************************************************************)
(* Compiling arbitrary template texts                                      *)
(***************************************************************************)
MaxTemplateLen == 4

\* the characters Formatter treats specially, a code letter and a plain one
TemplateAlphabet == {" ", "/", "*", "%", "c", "x"}

\* every text of up to MaxTemplateLen characters
ShortTemplates == UNION {[1..n -> TemplateAlphabet] : n \in 0..MaxTemplateLen}

MaxRegionLen == 5

\* code letters in both cases, a second code, a plain character, the markers
RegionAlphabet == {"%", "*", "c", "C", "i", "x"}

Regions == UNION {[1..n -> RegionAlphabet] : n \in 0..MaxRegionLen}

\* what stands before the first "/" and after the third: a space; nothing;
\* nothing and a final space; no space; a toggle marker; a variable
Frames ==
    { <<<<" ">>, <<>>>>,
      <<<<>>, <<>>>>,
      <<<<>>, <<" ">>>>,
      <<<<"x">>, <<>>>>,
      <<<<"*", " ">>, <<>>>>,
      <<<<"%", "C", " ">>, <<>>>> }

\* head, signal region, an empty delimiter, end
RegionTemplates ==
    {f[1] \o <<"/">> \o r \o <<"/", "/">> \o f[2] : f \in Frames, r \in Regions}

InitTemplate ==
    /\ raw \in {RawOf(t) : t \in ShortTemplates \cup RegionTemplates}
    /\ text = <<>>
    /\ Idle

SpecTemplate == InitTemplate /\ [][Compile]_vars

(***************************************************************************)
(* Comparing two Blocks                                                    *)
(***************************************************************************)
MaxBlockLen == 2

BlockTexts == UNION {[1..n -> {"a", "b"}] : n \in 0..MaxBlockLen}

\* the Chars of Block(paragraph, runs=True) for a paragraph of one run: each
\* Char(char, run) is a new object (n names the construction) and carries the
\* run's italic, bold, underline, subscript and superscript
RunChars(str, bits, n) ==
    [j \in 1..Len(str) |-> [ch |-> str[j], bits |-> bits, id |-> <<"run", n, j>>]]

\* self is built from a paragraph; other is built from another paragraph, or
\* is Block(self, optional, variable=...), which takes the Chars of self
InitBlocks ==
    /\ \E t1, t2 \in BlockTexts :
       \E s1, s2 \in {<<"None", "None", "None", "None", "None">>,
                      <<"True", "None", "None", "None", "None">>} :
       \E o1, o2, v1, v2, shared \in BOOLEAN :
            compared = [self |-> Block(RunChars(t1, s1, 1), o1, v1),
                      other |-> IF shared THEN Block(RunChars(t1, s1, 1), o2, v2)
                                ELSE Block(RunChars(t2, s2, 2), o2, v2),
                      eq |-> FALSE]
    /\ raw = <<>>
    /\ text = <<>>
    /\ pc = "blocks"
    /\ r_spectrum = <<>>
    /\ resplit = FALSE
    /\ formatter = NoFormatter
    /\ path = "none"
    /\ _signals = <<>>
    /\ cur = 0
    /\ hypothesis = NoHypothesis
    /\ parsed = NoParsed
    /\ signals = <<>>
    /\ cx = NoComplex
    /\ err = "none"

\* self == other
CompareBlocks ==
    /\ pc = "blocks"
    /\ compared' = [compared EXCEPT !.eq = BlockEq(compared.self, compared.other)]
    /\ pc' = "compared"
    /\ UNCHANGED <<raw, r_spectrum, resplit, text, formatter, path, _signals, cur,
                   hypothesis, parsed, signals, cx, err>>

SpecBlocks == InitBlocks /\ [][CompareBlocks]_vars

(***************************************************************************)
(* Claims                                                                  *)
(***************************************************************************)
\* the 1-based positions of the signal region in the template: between the
\* first and the second "/"
RegionOf(rawf) ==
    LET slashes == {p \in 1..Len(rawf) : rawf[p].ch = "/"}
        first == Min(slashes)
        second == Min(slashes \ {first})
    IN  (first + 1)..(second - 1)

\* the 0-based index of the piece a region position lies in: the toggle
\* markers before it
PieceAt(rawf, p) == Cardinality({q \in RegionOf(rawf) : q < p /\ rawf[q].ch = "*"})

\* the number of pieces: an empty piece after the last toggle marker is none
PieceCount(rawf) ==
    LET stars == Cardinality({q \in RegionOf(rawf) : rawf[q].ch = "*"})
    IN  IF \E p \in RegionOf(rawf) : rawf[p].ch # "*" /\ PieceAt(rawf, p) = stars
        THEN stars + 1 ELSE stars

\* k: the optional pieces are the odd ones
OptionalCount(rawf) == PieceCount(rawf) \div 2

OptionalIndices(rawf) == {i \in 0..(PieceCount(rawf) - 1) : i % 2 = 1}

\* the template positions a hypothesis is made of, in its order: a Char of
\* the template stands for its own position, the two Chars of a variable
\* for the positions of "%" and of the code letter
PositionsOf(hyp) ==
    LET all == JoinStr([i \in 1..Len(hyp.section) |->
                          [chars |-> [j \in 1..Len(hyp.section[i].chars) |->
                              [ch |-> hyp.section[i].chars[j].id[2]
                                      + (IF hyp.section[i].chars[j].id[1] = "key"
                                         THEN hyp.section[i].chars[j].id[3] - 1 ELSE 0)]]]])
    IN  all

\* the region positions of the obligatory pieces and of the optional pieces in S
Chosen(rawf, S) ==
    {p \in RegionOf(rawf) :
        /\ rawf[p].ch # "*"
        /\ PieceAt(rawf, p) % 2 = 0 \/ PieceAt(rawf, p) \in S}

IsIncreasing(seq) == \A i \in 1..(Len(seq) - 1) : seq[i] < seq[i + 1]

\* hyp is built of the obligatory pieces and exactly the optional pieces S
BuiltFrom(rawf, hyp, S) ==
    LET ps == PositionsOf(hyp)
    IN  IsIncreasing(ps) /\ Range(ps) = Chosen(rawf, S)

RECURSIVE Binomial(_, _)
Binomial(n, r) ==
    IF r < 0 \/ r > n THEN 0
    ELSE IF r = 0 THEN 1
    ELSE (Binomial(n - 1, r - 1) * n) \div r

RECURSIVE Power2(_)
Power2(n) == IF n = 0 THEN 1 ELSE 2 * Power2(n - 1)

GroupSizes(hypotheses) ==
    LET F[g \in 0..Len(hypotheses)] ==
            IF g = 0 THEN 0 ELSE F[g - 1] + Len(hypotheses[g])
    IN  F[Len(hypotheses)]

\* C1: a compiled template with k optional pieces has k + 1 hypothesis groups;
\* the group at 0-based position g holds C(k, k - g) hypotheses, each built of
\* the obligatory pieces and exactly k - g optional pieces; 2^k in all.
C1_GroupsByOptionalCount ==
    pc = "compiled" =>
        LET k == OptionalCount(raw)
            hs == formatter.hypotheses
        IN  /\ Len(hs) = k + 1
            /\ GroupSizes(hs) = Power2(k)
            /\ \A g \in 1..Len(hs) :
                /\ Len(hs[g]) = Binomial(k, k - (g - 1))
                /\ \A h \in 1..Len(hs[g]) :
                     \E S \in SUBSET OptionalIndices(raw) :
                        /\ Cardinality(S) = k - (g - 1)
                        /\ BuiltFrom(raw, hs[g][h], S)

\* a template with five optional pieces, compiled: ten hypotheses keep three
C1_Witness ==
    /\ pc = "compiled"
    /\ OptionalCount(raw) = 5
    /\ Len(formatter.hypotheses) = 6
    /\ Len(formatter.hypotheses[3]) = 10

\* the span match_hypothesis was called with
CurrentSpan == Str(_signals[cur + 1].chars)

\* match_hypothesis has returned or raised for the current span
Judged == pc \in {"matched", "failed"} /\ hypothesis.kind # "none"

\* a hypothesis is valid for a text: each constant span, in order, occurs in
\* what remains of the text from the previous constant's first occurrence
RECURSIVE ValidFrom(_, _, _)
ValidFrom(cs, i, t) ==
    \/ i > Len(cs)
    \/ /\ StrFind(t, cs[i], 0, Len(t)) # -1
       /\ ValidFrom(cs, i + 1, Slice(t, StrFind(t, cs[i], 0, Len(t)), Len(t)))

Valid(hyp, t) == ValidFrom(constants_str(hyp.section), 1, t)

AnyValidIn(hypothesis_set, t) ==
    \E h \in 1..Len(hypothesis_set) : Valid(hypothesis_set[h], t)

\* the text lacks a constant of the template's optional piece
LacksOptionalConstant(f, t) ==
    LET piece == Pieces(f.signals.section)[2]
    IN  \E b \in 1..Len(piece) :
            /\ ~piece[b].variable
            /\ StrFind(t, Str(piece[b].chars), 0, Len(t)) = -1

\* C2: match_hypothesis returns a hypothesis from a group only when no
\* hypothesis of a fuller group is valid; it raises InputError exactly when
\* no hypothesis is valid; with one optional piece, a record that lacks the
\* piece's constant and has the obligatory constants gets the 0-optional
\* hypothesis.
C2_FullestValidGroupFirst ==
    Judged =>
        LET hs == formatter.hypotheses
            t == CurrentSpan
        IN  /\ hypothesis.kind = "hypothesis" =>
                \A g \in 1..(hypothesis.g - 1) : ~AnyValidIn(hs[g], t)
            /\ hypothesis.kind = "InputError" <=>
                \A g \in 1..Len(hs) : ~AnyValidIn(hs[g], t)
            /\ ( /\ OptionalCount(raw) = 1
                 /\ LacksOptionalConstant(formatter, t)
                 /\ Valid(hs[2][1], t) ) =>
                    /\ hypothesis.kind = "hypothesis"
                    /\ hypothesis.g = 2
                    /\ hypothesis.h = 1

\* one optional piece whose constant the record lacks: the 0-optional
\* hypothesis was returned
C2_Witness ==
    /\ pc = "matched"
    /\ OptionalCount(raw) = 1
    /\ LacksOptionalConstant(formatter, CurrentSpan)
    /\ hypothesis.g = 2

\* the 0-based positions of a group whose hypotheses match_hypothesis looks
\* at: up to the first one it returns at once, without constants or with
\* every constant found exactly once
Exact(hyp, t) ==
    LET r == CountsLoop(constants_str(hyp.section), 1, t, <<>>)
    IN  ~r.next_ /\ Range(r.counts) = {1}

ReachedIn(hypothesis_set, h, t) ==
    \A j \in 1..(h - 1) :
        /\ constants(hypothesis_set[j].section) # <<>>
        /\ ~Exact(hypothesis_set[j], t)

\* C3: a hypothesis without constant spans that match_hypothesis reaches is
\* returned at once, whatever the text, also when a hypothesis before it in
\* the group is valid with a penalty.
C3_NoConstantsReturnedAtOnce ==
    Judged =>
        LET hs == formatter.hypotheses
            t == CurrentSpan
        IN  \A g \in 1..Len(hs) : \A h \in 1..Len(hs[g]) :
                ( /\ \A f \in 1..(g - 1) : ~AnyValidIn(hs[f], t)
                  /\ ReachedIn(hs[g], h, t)
                  /\ constants(hs[g][h].section) = <<>> ) =>
                    /\ hypothesis.kind = "hypothesis"
                    /\ hypothesis.g = g
                    /\ hypothesis.h = h
                    /\ hypothesis.how = "no constants"

\* a hypothesis without constants was returned although the one before it in
\* its group is valid, with a penalty
C3_Witness ==
    /\ pc = "matched"
    /\ hypothesis.how = "no constants"
    /\ hypothesis.h = 2
    /\ Valid(formatter.hypotheses[hypothesis.g][1], CurrentSpan)
    /\ ~Exact(formatter.hypotheses[hypothesis.g][1], CurrentSpan)

\* parse_signal has returned or raised for a span
Extracted == parsed.result.kind # "none"

\* the hypothesis parse_signal was called with
ParsedHypothesis == formatter.hypotheses[hypothesis.g][hypothesis.h]

\* the span parse_signal was called with
ParsedSpan ==
    IF parsed.result.kind = "Signal" THEN _signals[cur].chars
    ELSE _signals[cur + 1].chars

\* the 1-based positions of a candidate text whose character the class rejects
Rejected(field) ==
    {p \in 1..Len(field.candidate) :
        field.candidate[p].ch \notin CUES[field.key].accept}

\* the candidate text from position p on starts with the constant after the field
ConstantAt(field, p) ==
    /\ p + Len(field.block) - 1 <= Len(field.candidate)
    /\ Str(SubSeq(field.candidate, p, p + Len(field.block) - 1)) = field.block

\* ORIGINAL C5: a candidate text with a character outside the class of its
\* variable ends the extraction with InputError and no record; a candidate
\* text of a variable without a class is the value, unchanged.
C5_RejectedCharacterFails ==
    Extracted =>
        \A n \in 1..Len(parsed.seen) :
            LET field == parsed.seen[n] IN
            IF CUES[field.key].none
            THEN field.kind = "ok" /\ field.value = field.candidate
            ELSE Rejected(field) # {} =>
                    /\ parsed.result.kind = "InputError"
                    /\ pc = "failed"

\* C5: for a hypothesis with constant spans, a candidate text whose first
\* character outside the class of its variable does not begin the constant
\* after the field ends the extraction with InputError and no record; when it
\* begins that constant the value is the text before it; a candidate text of a
\* variable without a class is the value, unchanged.
C5_RejectedCharacterFailsUnlessConstant ==
    Extracted =>
        \A n \in 1..Len(parsed.seen) :
            LET field == parsed.seen[n] IN
            IF CUES[field.key].none
            THEN field.kind = "ok" /\ field.value = field.candidate
            ELSE IF Rejected(field) = {}
            THEN field.kind = "ok" /\ field.value = field.candidate
            ELSE IF ConstantAt(field, Min(Rejected(field)))
            THEN /\ field.kind = "ok"
                 /\ field.value = SubSeq(field.candidate, 1, Min(Rejected(field)) - 1)
            ELSE /\ field.kind = "InputError"
                 /\ n = Len(parsed.seen)
                 /\ parsed.result.kind = "InputError"
                 /\ pc = "failed"
                 /\ Len(signals) = cur

\* a field of digits was ended by the constant after it: a record was built
\* from a candidate text holding a character outside the class
C5_Witness ==
    /\ parsed.result.kind = "Signal"
    /\ \E n \in 1..Len(parsed.seen) :
        /\ ~CUES[parsed.seen[n].key].none
        /\ Rejected(parsed.seen[n]) # {}
        /\ parsed.seen[n].value # <<>>

\* the lengths of the blocks of a hypothesis in a text that gives its n-th
\* variable lens[n] characters
BlockLen(hyp, lens, i) ==
    IF hyp.section[i].variable
    THEN lens[Cardinality({j \in 1..i : hyp.section[j].variable})]
    ELSE Len(hyp.section[i].chars)

Offset(hyp, lens, i) ==
    LET F[j \in 0..Len(hyp.section)] ==
            IF j = 0 THEN 0 ELSE F[j - 1] + BlockLen(hyp, lens, j)
    IN  F[i]

\* the text is the hypothesis rendered: constants literally, the n-th variable
\* replaced by lens[n] characters
Renders(hyp, lens, t) ==
    /\ Offset(hyp, lens, Len(hyp.section)) = Len(t)
    /\ \A i \in 1..Len(hyp.section) :
        ~hyp.section[i].variable =>
            Slice(t, Offset(hyp, lens, i - 1), Offset(hyp, lens, i))
                = Str(hyp.section[i].chars)

\* the value the rendered text holds for the n-th variable
ValueAt(hyp, lens, t, n) ==
    LET i == CHOOSE j \in 1..Len(hyp.section) :
                /\ hyp.section[j].variable
                /\ Cardinality({q \in 1..j : hyp.section[q].variable}) = n
    IN  Slice(t, Offset(hyp, lens, i - 1), Offset(hyp, lens, i))

Lengths(hyp, t) == [1..Len(variables(hyp.section)) -> 1..Len(t)]

\* the value is accepted by the class of its variable and holds neither a
\* constant of the template nor the delimiter
Admissible(f, key, value) ==
    /\ CUES[key].none \/ Range(value) \subseteq CUES[key].accept
    /\ \A c \in Range(constants_str(f.signals.section)) \cup {Str(f.delimiter.chars)} :
            StrFind(value, c, 0, Len(value)) = -1

\* the field a record keeps for a variable code
FieldOf(signal, key) ==
    CASE key = <<"%", "c">> -> signal.chemshift
      [] key = <<"%", "i">> -> signal.integral
      [] key = <<"%", "m">> -> signal.multiplicity
      [] key = <<"%", "j">> -> signal.j_values
      [] key = <<"%", "a">> -> signal.assignment
      [] OTHER -> None

\* C4: a text rendered from a hypothesis H that has variables, with non-empty
\* admissible values, is matched to H, and parse_signal returns a record that
\* holds, for each variable code of H, the characters of its value.
C4_RoundTrip ==
    \A g \in 1..Len(formatter.hypotheses) : \A h \in 1..Len(formatter.hypotheses[g]) :
        LET H == formatter.hypotheses[g][h]
            keys == variables_str(H.section)
            t == IF Extracted THEN Str(ParsedSpan) ELSE CurrentSpan
        IN  ((Judged \/ Extracted) /\ keys # <<>>) =>
            \A lens \in Lengths(H, t) :
                ( /\ Renders(H, lens, t)
                  /\ \A n \in 1..Len(keys) :
                        Admissible(formatter, keys[n], ValueAt(H, lens, t, n)) ) =>
                    /\ hypothesis.kind = "hypothesis"
                    /\ hypothesis.g = g /\ hypothesis.h = h
                    /\ Extracted =>
                        /\ parsed.result.kind = "Signal"
                        /\ \A n \in 1..Len(keys) :
                            keys[n] \in SignalKeys =>
                                /\ ~FieldOf(parsed.result, keys[n]).none
                                /\ Str(FieldOf(parsed.result, keys[n]).chars)
                                        = ValueAt(H, lens, t, n)

\* C6: a record parse_signal returns for a text whose fields are all non-empty
\* holds one value for every variable of its hypothesis, in their order; no
\* variable code is left without a value, the first variable's value starts
\* the text and the last variable's value ends it.
C6_OneValuePerVariable ==
    (parsed.result.kind = "Signal"
        /\ \E lens \in Lengths(ParsedHypothesis, Str(ParsedSpan)) :
                Renders(ParsedHypothesis, lens, Str(ParsedSpan))) =>
        LET H == ParsedHypothesis
            keys == variables_str(H.section)
            t == Str(ParsedSpan)
            values == parsed.result.signal_variables
        IN  /\ Len(values) = Len(keys)
            /\ \A n \in 1..Len(keys) :
                keys[n] \in SignalKeys =>
                    /\ ~FieldOf(parsed.result, keys[n]).none
                    /\ FieldOf(parsed.result, keys[n]).chars = values[n]
            /\ H.section[Len(H.section)].variable =>
                    Slice(t, Len(t) - Len(values[Len(values)]), Len(t))
                        = Str(values[Len(values)])

\* the values of a record, as strings
ValuesOf(signal) ==
    <<Str(signal.chemshift.chars), Str(signal.integral.chars),
      Str(signal.multiplicity.chars), Str(signal.j_values.chars)>>

\* two records of the fullest hypothesis with the values 1.2, 3, d, 7.5 and
\* 2.1, 1, s, 0.0
TwoRecords ==
    /\ Len(signals) = 2
    /\ \A i \in 1..2 : signals[i].hypothesis = formatter.hypotheses[1][1]
    /\ ValuesOf(signals[1]) = <<<<"1", ".", "2">>, <<"3">>, <<"d">>, <<"7", ".", "5">>>>
    /\ ValuesOf(signals[2]) = <<<<"2", ".", "1">>, <<"1">>, <<"s">>, <<"0", ".", "0">>>>

SplitDone == path \in {"simple", "complex"} /\ pc \in {"loop", "matched", "done"}

SplitEnded ==
    \/ SplitDone
    \/ pc = "failed"

\* C9: splitting again a span the split has emitted, which holds no effective
\* delimiter, gives that span alone, with the same characters.
C9_ResplitUnchanged ==
    (resplit /\ SplitEnded) =>
        /\ Len(_signals) = 1
        /\ Str(_signals[1].chars) = Str(r_spectrum)

\* C10: parse_signals ends with records or with InputError, never with
\* another exception.
C10_RecordsOrInputError ==
    pc = "failed" => err = "InputError"

CountOf(rawf, c) == Cardinality({p \in 1..Len(rawf) : rawf[p].ch = c})

\* the Chars between the first and the second "/"
RegionChars(rawf) ==
    LET R == RegionOf(rawf)
    IN  [i \in 1..Cardinality(R) |-> rawf[Min(R) + i - 1]]

\* C12: a template whose number of "/" is not three, or whose number of "*"
\* is odd, ends Formatter construction with FormatError; nothing is built: no
\* head, no signal section, no delimiter, no end, no hypotheses; this also
\* when tokenizing a region would fail otherwise.
C12_MarkerCountsFail ==
    (pc # "start" /\ (CountOf(raw, "/") # 3 \/ CountOf(raw, "*") % 2 = 1)) =>
        /\ pc = "failed"
        /\ err = "FormatError"
        /\ formatter = [err |-> "FormatError"]

\* a template with three "/" and an odd number of "*" whose signal region
\* ends with "%" was refused with FormatError
C12_Witness ==
    /\ pc = "failed"
    /\ err = "FormatError"
    /\ CountOf(raw, "/") = 3
    /\ CountOf(raw, "*") % 2 = 1
    /\ RegionOf(raw) # {}
    /\ _parse(raw, RegionChars(raw)).err = "IndexError"

\* C13: a template with three "/" and an even number of "*" ends Formatter
\* construction with FormatError unless a space stands immediately before the
\* first "/"; a template that begins with its first "/" has no such space.
C13_NoSpaceFails ==
    LET first == Min({p \in 1..Len(raw) : raw[p].ch = "/"})
    IN  ( /\ pc # "start"
          /\ CountOf(raw, "/") = 3
          /\ CountOf(raw, "*") % 2 = 0
          /\ ~(first > 1 /\ raw[first - 1].ch = " ") ) =>
            /\ pc = "failed"
            /\ err = "FormatError"

\* C14: a template with three "/" in whose head or signal region some "%" is
\* not followed, inside the region, by a code letter (in either case, as
\* _parse lowers it) ends Formatter construction with FormatError and with
\* no other failure.
C14_UnrecognizedCodeFails ==
    LET HeadOf == 1..(Min({p \in 1..Len(raw) : raw[p].ch = "/"}) - 1)
        Unfollowed(R) ==
            {p \in R : /\ raw[p].ch = "%"
                       /\ ~(p + 1 \in R /\ <<"%", Lower(raw[p + 1].ch)>> \in CuesKeys)}
    IN  ( /\ pc # "start"
          /\ CountOf(raw, "/") = 3
          /\ Unfollowed(HeadOf) \cup Unfollowed(RegionOf(raw)) # {} ) =>
            /\ pc = "failed"
            /\ err = "FormatError"

\* C15: the variable items of the head and of the signal section of a
\* compiled template carry pairwise different codes.
C15_NoDuplicateCode ==
    pc = "compiled" =>
        LET items == variables(formatter.head.section)
                        \o variables(formatter.signals.section)
        IN  \A i, j \in 1..Len(items) :
                i # j => Str(items[i].chars) # Str(items[j].chars)

\* C16: in the head and in the signal section of a compiled template a
\* non-empty constant span stands between any two variable items, and no
\* hypothesis has two variables next to each other, as two spans or joined
\* in one.
C16_VariablesSeparated ==
    pc = "compiled" =>
        LET Separated(section) ==
                \A i, j \in 1..Len(section) :
                    (i < j /\ section[i].variable /\ section[j].variable) =>
                        \E m \in (i + 1)..(j - 1) :
                            ~section[m].variable /\ section[m].chars # <<>>
            Codes(block) ==
                {c.id[2] : c \in {x \in Range(block.chars) : x.id[1] = "key"}}
            Apart(section) ==
                \A b \in 1..Len(section) :
                    /\ Cardinality(Codes(section[b])) <= 1
                    /\ b > 1 => ~(section[b].variable /\ section[b - 1].variable)
        IN  /\ Separated(formatter.head.section)
            /\ Separated(formatter.signals.section)
            /\ \A g \in 1..Len(formatter.hypotheses) :
                \A h \in 1..Len(formatter.hypotheses[g]) :
                    Apart(formatter.hypotheses[g][h].section)

\* C17: two Blocks compare equal exactly when they have the same number of
\* Chars, the same character and the same five style attributes at every
\* position, and the same optional and variable flags.
C17_EqualByValue ==
    pc = "compared" =>
        LET a == compared.self
            b == compared.other
        IN  compared.eq <=>
                /\ Len(a.chars) = Len(b.chars)
                /\ \A i \in 1..Len(a.chars) :
                    /\ a.chars[i].ch = b.chars[i].ch
                    /\ a.chars[i].bits = b.chars[i].bits
                /\ a.optional = b.optional
                /\ a.variable = b.variable

\* C18: in the group that keeps n of the k optional pieces there is one
\* hypothesis for every choice of n optional pieces; the hypothesis at
\* position h drops the set of optional pieces that has h - 1 sets of its size
\* above it in colexicographic order (the sets are compared by their largest
\* differing member), so the first drops the last k - n pieces and the last
\* drops the first k - n; the pieces kept stand in template order.
C18_CombinationOrder ==
    pc = "compiled" =>
        LET k == OptionalCount(raw)
            hs == formatter.hypotheses
            Above(E, D) ==
                /\ E # D
                /\ \E x \in E \ D : \A y \in D \ E : y < x
            Rank(D) ==
                Cardinality({E \in SUBSET (0..(k - 1)) :
                                Cardinality(E) = Cardinality(D) /\ Above(E, D)})
            Kept(D) == {2 * d + 1 : d \in (0..(k - 1)) \ D}
        IN  \A g \in 1..Len(hs) :
                /\ Len(hs[g]) = Binomial(k, g - 1)
                /\ \A h \in 1..Len(hs[g]) :
                    \E D \in SUBSET (0..(k - 1)) :
                        /\ Cardinality(D) = g - 1
                        /\ Rank(D) = h - 1
                        /\ BuiltFrom(raw, hs[g][h], Kept(D))
                /\ BuiltFrom(raw, hs[g][1], Kept((k - (g - 1))..(k - 1)))
                /\ BuiltFrom(raw, hs[g][Len(hs[g])], Kept(0..(g - 2)))

\* four non-empty optional pieces: the third hypothesis of the group that
\* keeps two of them drops the first and the last piece, and no other set
C18_Witness ==
    /\ pc = "compiled"
    /\ OptionalCount(raw) = 4
    /\ \A p \in RegionOf(raw) : raw[p].ch \in {"a", "*"}
    /\ PieceCount(raw) = 9
    /\ Len(formatter.hypotheses[3]) = 6
    /\ \A S \in SUBSET OptionalIndices(raw) :
        BuiltFrom(raw, formatter.hypotheses[3][3], S) <=> S = {3, 5}

\* C19: in the first group that holds a valid hypothesis, when it holds no
\* hypothesis without constants and no hypothesis with every constant found
\* exactly once, match_hypothesis returns the valid hypothesis of that group
\* whose total penalty, the sum over its constants of (count - 1), is
\* minimal, and the earliest such hypothesis on ties.
C19_MinimalPenaltyChosen ==
    Judged =>
        LET hs == formatter.hypotheses
            t == CurrentSpan
            Penalty(hyp) ==
                LET c == CountsLoop(constants_str(hyp.section), 1, t, <<>>).counts
                    S[i \in 0..Len(c)] ==
                        IF i = 0 THEN 0 ELSE S[i - 1] + (c[i] - 1)
                IN  S[Len(c)]
        IN  \A g \in 1..Len(hs) :
                ( /\ \A f \in 1..(g - 1) : ~AnyValidIn(hs[f], t)
                  /\ \A h \in 1..Len(hs[g]) :
                        /\ constants(hs[g][h].section) # <<>>
                        /\ ~Exact(hs[g][h], t)
                  /\ AnyValidIn(hs[g], t) ) =>
                    /\ hypothesis.kind = "hypothesis"
                    /\ hypothesis.g = g
                    /\ Valid(hs[g][hypothesis.h], t)
                    /\ \A j \in 1..Len(hs[g]) :
                        Valid(hs[g][j], t) =>
                            \/ Penalty(hs[g][hypothesis.h]) < Penalty(hs[g][j])
                            \/ /\ Penalty(hs[g][hypothesis.h]) = Penalty(hs[g][j])
                               /\ hypothesis.h <= j

\* C20: in the first group that holds a valid hypothesis, the first
\* hypothesis whose constants are each found exactly once in the text as it
\* is shortened is returned at once, whatever the hypotheses before it in the
\* group gave; the scores gathered are those of the hypotheses before it, so
\* nothing after it was examined.
C20_ExactReturnedAtOnce ==
    Judged =>
        LET hs == formatter.hypotheses
            t == CurrentSpan
            Once(hyp) ==
                LET r == CountsLoop(constants_str(hyp.section), 1, t, <<>>)
                IN  ~r.next_ /\ \A i \in 1..Len(r.counts) : r.counts[i] = 1
            Entries(hyp) ==
                IF Valid(hyp, t) THEN Len(constants_str(hyp.section)) ELSE 1
        IN  \A g \in 1..Len(hs) : \A h \in 1..Len(hs[g]) :
                LET Gathered[j \in 0..Len(hs[g])] ==
                        IF j = 0 THEN 0 ELSE Gathered[j - 1] + Entries(hs[g][j])
                IN  ( /\ \A f \in 1..(g - 1) : ~AnyValidIn(hs[f], t)
                      /\ Once(hs[g][h])
                      /\ \A j \in 1..(h - 1) : ~Once(hs[g][j]) ) =>
                        /\ hypothesis.kind = "hypothesis"
                        /\ hypothesis.g = g
                        /\ hypothesis.h = h
                        /\ hypothesis.how \in {"exact", "no constants"}
                        /\ Len(hypothesis.scores) = Gathered[h - 1]

\* the second hypothesis of a group was returned as an exact match after the
\* first was found valid with a penalty on two constants
C20_Witness ==
    /\ pc = "matched"
    /\ hypothesis.how = "exact"
    /\ hypothesis.g = 2
    /\ hypothesis.h = 2
    /\ Len(hypothesis.scores) = 2
    /\ Valid(formatter.hypotheses[2][1], CurrentSpan)
    /\ ~Exact(formatter.hypotheses[2][1], CurrentSpan)

\* C21: the position match_hypothesis computes from the score list always
\* designates a hypothesis of the group being scanned (the lookup never
\* raises IndexError), and the hypothesis returned through the scores was
\* found valid for the record.
C21_ScoredHypothesisValid ==
    Judged =>
        /\ hypothesis.kind # "IndexError"
        /\ ( hypothesis.kind = "hypothesis" /\ hypothesis.how = "score" ) =>
                /\ hypothesis.h \in 1..Len(formatter.hypotheses[hypothesis.g])
                /\ Valid(formatter.hypotheses[hypothesis.g][hypothesis.h],
                         CurrentSpan)

\* C22: in a compiled signal region every toggle character gives one
\* zero-length item that carries the flipped optional flag, every other item
\* carries the flag in force where it stands, and the pieces alternate from an
\* obligatory one: the items of an even piece (0-based) are not optional,
\* those of an odd piece are, empty pieces included; a hypothesis is made of
\* the even pieces and of the odd pieces of its combination, in order.
C22_PiecesAlternate ==
    pc = "compiled" =>
        LET sec == formatter.signals.section
            hs == formatter.hypotheses
            toggles == {i \in 1..Len(sec) : sec[i].chars = <<>>}
            Before(i) == Cardinality({j \in toggles : j < i})
            stars == Cardinality({q \in RegionOf(raw) : raw[q].ch = "*"})
            ps == Pieces(sec)
            k == Len(ps) \div 2
            CharsOf(blocks) ==
                LET F[i \in 0..Len(blocks)] ==
                        IF i = 0 THEN <<>> ELSE F[i - 1] \o blocks[i].chars
                IN  F[Len(blocks)]
            Made(comb) ==
                LET F[p \in 0..Len(ps)] ==
                        IF p = 0 THEN <<>>
                        ELSE IF (p - 1) % 2 = 0 \/ ps[p] \in Range(comb)
                        THEN F[p - 1] \o CharsOf(ps[p])
                        ELSE F[p - 1]
                IN  F[Len(ps)]
        IN  /\ Cardinality(toggles) = stars
            /\ \A i \in 1..Len(sec) :
                /\ i \in toggles =>
                    /\ sec[i].optional = ((Before(i) + 1) % 2 = 1)
                    /\ ~sec[i].variable
                /\ i \notin toggles => sec[i].optional = (Before(i) % 2 = 1)
            /\ Len(ps) \in {stars, stars + 1}
            /\ \A p \in 1..Len(ps) : \A b \in 1..Len(ps[p]) :
                ps[p][b].optional = ((p - 1) % 2 = 1)
            /\ \A g \in 1..Len(hs) : \A h \in 1..Len(hs[g]) :
                CharsOf(hs[g][h].section)
                    = Made(find_combinations(OptionalPieces(ps), k + 1 - g)[h])

\* a region that starts with a toggle and has two toggles in a row: the first
\* and the third piece are empty, the second and the fourth are not
C22_Witness ==
    /\ pc = "compiled"
    /\ LET ps == Pieces(formatter.signals.section)
       IN  /\ Len(ps) = 4
           /\ ps[1] = <<>> /\ ps[3] = <<>>
           /\ ps[2] # <<>> /\ ps[4] # <<>>
    /\ Len(formatter.hypotheses[2]) = 2

\* C23: in every hypothesis, after splice_blocks, no two adjacent spans have
\* the same variable flag, and a span keeps the variable flag of the spans it
\* was merged from: a span that holds the Chars of a variable is variable.
C23_SplicedSpansAlternate ==
    pc = "compiled" =>
        \A g \in 1..Len(formatter.hypotheses) :
            \A h \in 1..Len(formatter.hypotheses[g]) :
                LET sec == formatter.hypotheses[g][h].section
                IN  /\ \A i \in 1..(Len(sec) - 1) :
                        sec[i].variable # sec[i + 1].variable
                    /\ \A i \in 1..Len(sec) :
                        (\E j \in 1..Len(sec[i].chars) :
                            sec[i].chars[j].id[1] = "key") => sec[i].variable

\* C24: once parse_signals has chosen its branch, the delimiter it splits on
\* is the text of the last item of the signal section followed by the
\* template's delimiter when that item is neither variable nor optional, and
\* the template's delimiter otherwise; the Formatter's delimiter is still the
\* Chars of the template between its second and its last "/".
C24_EffectiveDelimiter ==
    ( pc # "split" /\ path # "none" /\ formatter.signals.section # <<>> ) =>
        LET section == formatter.signals.section
            last == section[Len(section)]
            configured == Str(formatter.delimiter.chars)
            claimed == IF ~last.variable /\ ~last.optional
                       THEN Str(last.chars) \o configured
                       ELSE configured
            slashes == {q \in 1..Len(raw) : raw[q].ch = "/"}
            second == Min(slashes \ {Min(slashes)})
            third == CHOOSE q \in slashes : \A r \in slashes : r <= q
            d == effective_delimiter(formatter)
        IN  /\ d.kind = "ok"
            /\ Str(d.block.chars) = claimed
            /\ formatter.delimiter.chars
                    = [q \in 1..(third - second - 1) |-> raw[second + q]]

\* the text was cut in two spans of two characters on a delimiter made of the
\* final constant of the region and the template's delimiter
C24_Witness ==
    /\ pc = "loop"
    /\ cur = 0
    /\ path = "simple"
    /\ ~resplit
    /\ Len(_signals) = 2
    /\ \A i \in 1..2 : Len(_signals[i].chars) = 2
    /\ Str(effective_delimiter(formatter).block.chars) = <<"a", ";">>
    /\ Str(formatter.delimiter.chars) = <<";">>

\* C25: on the simple branch every span is its slice of the text without a
\* trailing end marker; when the last constant of the signal section is
\* obligatory and is the last item of the section the span ends with one copy
\* of its text, appended only if the slice did not end with it; when that
\* constant is optional or is not the last item nothing is appended.
C25_SlicesReattached ==
    ( pc = "loop" /\ cur = 0 /\ path = "simple" ) =>
        LET sec == formatter.signals.section
            slices == split(text, Str(effective_delimiter(formatter).block.chars)).texts
            consts == {m \in 1..Len(sec) : ~sec[m].variable /\ sec[m].chars # <<>>}
            final == CHOOSE m \in consts : \A n \in consts : n <= m
            c == Str(sec[final].chars)
            Popped(t) ==
                IF t # <<>> /\ StrCount(Str(formatter.end.chars), <<t[Len(t)]>>) > 0
                THEN SubSeq(t, 1, Len(t) - 1) ELSE t
            EndsWith(t) ==
                Len(t) >= Len(c) /\ SubSeq(t, Len(t) - Len(c) + 1, Len(t)) = c
        IN  /\ Len(_signals) = Len(slices)
            /\ \A i \in 1..Len(slices) :
                LET t == Popped(Str(slices[i].chars))
                IN  IF consts # {} /\ ~sec[final].optional /\ final = Len(sec)
                    THEN Str(_signals[i].chars) = IF EndsWith(t) THEN t ELSE t \o c
                    ELSE Str(_signals[i].chars) = t

\* C26: Block.split, as the simple branch applies it to the text with a
\* non-empty delimiter, returns one span per element of the split of the
\* text's string, empty elements included, each span made of the Chars that
\* stand at the element's own positions in the text.
C26_SplitByElements ==
    ( pc # "split" /\ path = "simple" ) =>
        LET sep == Str(effective_delimiter(formatter).block.chars)
            parts == StrSplit(Str(text), sep)
            Start[j \in 1..Len(parts)] ==
                IF j = 1 THEN 0 ELSE Start[j - 1] + Len(parts[j - 1]) + Len(sep)
            r == split(text, sep)
        IN  sep # <<>> =>
                /\ r.kind = "ok"
                /\ Len(r.texts) = Len(parts)
                /\ \A j \in 1..Len(parts) :
                    r.texts[j].chars
                        = SubSeq(text, Start[j] + 1, Start[j] + Len(parts[j]))


\* C27: a pass of the anchor loop of complex_parse_into_signals does not fail
\* and emits the slice of the remaining text whose left boundary is the end of
\* the delimiter occurrence nearest before the first occurrence of the left
\* anchor, when a delimiter occurrence starts before that occurrence, and the
\* start of the remaining text otherwise; its right boundary is the first
\* delimiter occurrence after the right anchor's first occurrence.
C27_LeftBoundary ==
    [][ ( /\ pc = "inner"
          /\ located(cx.l_anchor, cx.r_anchor,
                     effective_delimiter(formatter).block, text) ) =>
            LET s == Str(text)
                n == Len(s)
                d == Str(effective_delimiter(formatter).block.chars)
                first == StrFind(s, Str(cx.l_anchor.chars), 0, n)
                nearest == {p \in 0..(first - 1) : OccursAt(s, d, p)}
                left == IF nearest = {} THEN 0
                        ELSE (CHOOSE p \in nearest : \A q \in nearest : q <= p)
                                 + Len(d)
                after == StrFind(s, Str(cx.r_anchor.chars), 0, n)
                             + Len(cx.r_anchor.chars)
                right == IF StrFind(s, d, after, n) = -1 THEN n
                         ELSE StrFind(s, d, after, n)
            IN  /\ pc' # "failed"
                /\ Len(_signals') = Len(_signals) + 1
                /\ _signals'[Len(_signals')].chars = Slice(text, left, right)
      ]_vars


\* C28: a pass of the anchor loop that emits a slice ends it at the first
\* delimiter occurrence after the end of the right anchor's first occurrence
\* (at the end of the remaining text when there is none), and leaves as
\* remaining text exactly what followed that delimiter occurrence, so that no
\* Char of the emitted slice is left in the remaining text.
C28_RightBoundary ==
    [][ ( /\ pc = "inner"
          /\ located(cx.l_anchor, cx.r_anchor,
                     effective_delimiter(formatter).block, text)
          /\ Len(_signals') = Len(_signals) + 1 ) =>
            LET s == Str(text)
                n == Len(s)
                d == Str(effective_delimiter(formatter).block.chars)
                after == StrFind(s, Str(cx.r_anchor.chars), 0, n)
                             + Len(cx.r_anchor.chars)
                right == IF StrFind(s, d, after, n) = -1 THEN n
                         ELSE StrFind(s, d, after, n)
                signal == _signals'[Len(_signals')].chars
            IN  /\ signal # <<>> => signal[Len(signal)] = text[right]
                /\ text' = Slice(text, right + Len(d), n)
                /\ Range(signal) \cap Range(text') = {}
      ]_vars


\* C29: complex_parse_into_signals terminates: a pass of the anchor loop
\* shortens the remaining text, sets the finished flag or raises; a pass of the
\* outer loop that does not finish enters the anchor loop with both anchors
\* and the delimiter in the text, so that the next outer pass finds the text or
\* the flag changed; and every run that enters the outer loop leaves it.
C29_Terminates ==
    /\ [][ ( /\ pc = "inner"
             /\ located(cx.l_anchor, cx.r_anchor,
                        effective_delimiter(formatter).block, text) ) =>
               \/ Len(text') < Len(text)
               \/ cx'.finished
               \/ pc' = "failed" ]_vars
    /\ [][ pc = "outer" =>
               \/ pc' = "loop"
               \/ pc' = "failed"
               \/ cx'.finished /\ ~cx.finished
               \/ /\ pc' = "inner"
                  /\ located(cx'.l_anchor, cx'.r_anchor,
                             effective_delimiter(formatter).block, text) ]_vars
    /\ (pc = "outer") ~> (pc \in {"loop", "failed"})

\* the anchor loop has shortened the text, the outer loop has ended with the
\* finished flag set and two or more spans, and complex_parse_into_signals has
\* returned
C29_Witness ==
    /\ path = "complex"
    /\ pc = "loop"
    /\ cx.finished
    /\ Len(_signals) >= 2
    /\ text # r_spectrum


\* C30: in every pass of the loop of parse_signal that does not raise, with c
\* the constant span of the pass, the candidate text is the text before the
\* last occurrence of c that lies wholly before the first occurrence of the
\* next constant span found after c's first occurrence (before the end of the
\* text for the last constant), without one leading space; and the text left
\* for the next pass starts right after the value taken from the candidate and
\* one occurrence of c.
C30_FieldBoundaries ==
    ( /\ Extracted
      /\ ~(Len(variables(ParsedHypothesis.section)) > 0
             /\ constants(ParsedHypothesis.section) = <<>>) ) =>
        LET hyp == ParsedHypothesis
            cs == constants_str(hyp.section)
            Locals[k \in 0..Len(cs)] ==
                IF k = 0 THEN FieldsStart(ParsedSpan)
                ELSE IF Locals[k - 1].kind = "ok"
                THEN FieldsPass(hyp, Locals[k - 1])
                ELSE Locals[k - 1]
        IN  \A k \in 1..Len(cs) :
                (Locals[k - 1].kind = "ok" /\ Locals[k].kind = "ok") =>
                    LET signal == Locals[k - 1].signal
                        s == Str(signal)
                        c == cs[k]
                        first == StrFind(s, c, 0, Len(s))
                        limit == IF k < Len(cs)
                                 THEN StrFind(s, cs[k + 1], first + Len(c), Len(s))
                                 ELSE Len(s)
                        ends == {p \in 0..(limit - Len(c)) : OccursAt(s, c, p)}
                        last == CHOOSE p \in ends : \A q \in ends : q <= p
                        stripped == IF last > 0 /\ s[1] = " " THEN 1 ELSE 0
                        candidate == Slice(signal, stripped, last)
                        value == IF candidate = <<>> THEN <<>>
                                 ELSE Locals[k].appendix
                    IN  /\ FieldStep(hyp, k, signal).working_slice = candidate
                        /\ Locals[k].signal
                               = Slice(signal, stripped + Len(value) + Len(c),
                                       Len(signal))

====
